---- MODULE Spec2Model ----
(***************************************************************************)
(* A model of tc_circuit: net clustering (TCCircuit.clusters), the         *)
(* dependency graph (TCCircuit.dependency_graph) and the compiler          *)
(* framework's topological pass (TCCompiler._compile_all).                 *)
(*                                                                         *)
(* Python objects are modelled as follows.  A dict is a function, in       *)
(* insertion order where the code iterates it (a sequence of entries).     *)
(* A WireCluster is an object with identity (dataclass(eq=False)): it is   *)
(* a number naming an entry of the `objects` store.  A cached attribute    *)
(* that is None is the empty tuple, one that is set is a 1-tuple.  The     *)
(* call stack is explicit: properties call each other before they loop.    *)
(***************************************************************************)
EXTENDS Integers, Sequences, FiniteSets, TLC

VARIABLES
    components,         \* TCCircuit.components: id (1..n) -> placed component
    wires,              \* TCCircuit.wires: the wires in id order, id = position - 1
    _clusters,          \* TCCircuit._clusters
    _dependency_graph,  \* TCCircuit._dependency_graph
    circuit,            \* TCCompiler.circuit
    sorter,             \* the TopologicalSorter of the running compile pass
    visited,            \* component ids handed to a handler in this pass, in order
    stack,              \* call stack, innermost frame last; a frame is a program point
    wire_i,             \* clusters: position of the next wire of the first loop
    cursor,             \* clusters: <<component, pin>> position of the second loop
    dg_i,               \* dependency_graph: position in all_clusters of its loop
    op,                 \* the operation the caller invoked last
    miss,               \* the cached properties this operation found unset and computed
    raised,             \* the exception this operation ended with, or "none"
    returned,           \* what this operation returned to the caller
    ops,                \* number of operations the caller has invoked
    _index,             \* TCCircuit._index
    _registry,          \* the compiler class's _registry: <<kind, handler>> entries in order
    condense_io,        \* TC2JSON.condense_io
    port_as_dict,       \* TC2JSON.port_as_dict
    numeric_names,      \* TC2JSON.numeric_names
    nodes,              \* TC2JSON.nodes: the entries <<name, data>> in insertion order
    tc2json_wires,      \* TC2JSON.wires
    cluster_sources,    \* TC2JSON.cluster_sources: Net (or NoCluster) -> <<port, width>>
    invoked,            \* the handler run for each component of `visited`
    cid,                \* _compile_all: the loop variable, 0 before the first turn
    log,                \* the operations the caller has invoked, in order
    geometry,           \* the last call of a geometry method: component, argument, value
    parse_result,       \* CustomInfo.parse_result: the components of the nested save
    cinfo               \* CustomInfo.cinfo

factory == <<parse_result, cinfo>>
options == <<_registry, condense_io, port_as_dict, numeric_names>>
output == <<nodes, tc2json_wires, cluster_sources>>

vars == <<components, wires, _clusters, _dependency_graph, circuit, sorter, visited,
          stack, wire_i, cursor, dg_i, op, miss, raised, returned, ops, _index,
          options, output, invoked, cid, log, geometry, factory>>

(***************************************************************************)
(* Bounds of the model.                                                    *)
(***************************************************************************)
MaxX == 3        \* wire end points lie on (0..MaxX, 0)
MaxWires == 3    \* number of wires of a circuit
MaxComps == 2    \* number of components of a circuit
MaxOps == 1      \* number of operations the caller invokes on one circuit
MaxPasses == 2   \* number of exports the caller asks of one exporter
MaxPlaced == 4   \* number of components of an exported circuit
MaxAccesses == 3 \* number of accesses and cache clears on one circuit
MaxMutations == 1 \* number of changes the caller makes to one circuit
MaxLocal == 1    \* local points passed to local_to_global_pos lie in -MaxLocal..MaxLocal

None == <<>>
Some(x) == <<x>>
NoCluster == 0   \* point_to_cluster.get(p, None) finding nothing

(***************************************************************************)
(* Points and pins.                                                        *)
(***************************************************************************)
PointAdd(p, q) == <<p[1] + q[1], p[2] + q[2]>>

\* Point.rotate(r) of save_monger: the axis-aligned rotation by r quarter turns
rotate(p, r) ==
    CASE r = 0 -> p
      [] r = 1 -> <<-p[2], p[1]>>
      [] r = 2 -> <<-p[1], -p[2]>>
      [] r = 3 -> <<p[2], -p[1]>>

PinInfo(kind, x, y) == [kind |-> kind, width |-> 1, pos |-> <<x, y>>]
PinInfo8(kind, x, y) == [kind |-> kind, width |-> 8, pos |-> <<x, y>>]

\* component.info.pins by kind: a small library of kind descriptions.  PinInfo.kind
\* is any string; the library uses the roles the code names: 'bidi' (clusters) and
\* 'bidirectional' (PinKinds, to_svg) besides input, output and output_tristate.
Kinds == {"LevelInput1", "LevelOutput1", "Not", "Switch1", "Custom", "Bidirectional1"}

Pins(kind) ==
    CASE kind = "LevelInput1" -> <<PinInfo("output", 1, 0)>>
      [] kind = "LevelOutput1" -> <<PinInfo("input", -1, 0)>>
      [] kind = "Not" -> <<PinInfo("input", -1, 0), PinInfo("output", 1, 0)>>
      [] kind = "Switch1" -> <<PinInfo("input", -1, 0), PinInfo("output_tristate", 2, 0)>>
      [] kind = "Custom" -> <<PinInfo("bidi", -1, 0), PinInfo("output", 1, 0)>>
      [] kind = "Bidirectional1" -> <<PinInfo("bidirectional", -1, 0), PinInfo("input", 1, 0)>>
      [] kind = "LevelInput8" -> <<PinInfo8("output", 1, 0)>>
      [] kind = "LevelOutput8" -> <<PinInfo8("input", -1, 0)>>
      [] kind = "Nand" -> <<PinInfo("input", -1, -1), PinInfo("input", -1, 1),
                            PinInfo("output", 1, 0)>>
      [] kind = "Constant8" -> <<PinInfo8("output", 1, 0)>>
      [] kind = "Input1" -> <<PinInfo("output", 1, 0)>>
      [] kind = "Output1" -> <<PinInfo("input", -1, 0)>>
      [] kind = "OutputZ1" -> <<PinInfo("output_tristate", -1, 0)>>
      [] kind = "ProbeWireBit" -> <<PinInfo("probe", -1, 0)>>
      [] OTHER -> <<>>

\* component.info.category and component.info.counterpart by kind
Category(kind) ==
    CASE kind \in {"Input1", "Output1", "OutputZ1"} -> "is_io"
      [] kind = "DelayLine1" -> "has_virtual"
      [] kind = "VirtualDelayLine1" -> "is_virtual"
      [] OTHER -> "default"
Counterpart(kind) == IF kind = "DelayLine1" THEN <<"VirtualDelayLine1">> ELSE <<>>

\* component.info.area by kind: the footprint cells of the library's kinds
Area(kind) ==
    CASE kind \in {"Nand", "Custom"} -> <<<<0, 0>>, <<0, 1>>, <<0, -1>>, <<-1, 1>>>>
      [] kind \in {"Not", "Switch1"} -> <<<<0, 0>>, <<1, 0>>>>
      [] OTHER -> <<<<0, 0>>>>

\* a plausible slip: the matrices of the quarter turn and the three-quarter turn
\* are exchanged
MatrixSwapped(rotation) ==
    CASE rotation = 0 -> <<1, 0, 0, 1>>
      [] rotation = 1 -> <<0, 1, -1, 0>>
      [] rotation = 2 -> <<-1, 0, 0, -1>>
      [] rotation = 3 -> <<0, -1, 1, 0>>

\* xx, xy, yx, yy = (...)[self.rotation]
Matrix(rotation) ==
    CASE rotation = 0 -> <<1, 0, 0, 1>>
      [] rotation = 1 -> <<0, -1, 1, 0>>
      [] rotation = 2 -> <<-1, 0, 0, -1>>
      [] rotation = 3 -> <<0, 1, -1, 0>>

\* self.pos + Point(x=p.x * xx + p.y * xy, y=p.x * yx + p.y * yy)
AreaCell(component, p) ==
    LET m == Matrix(component.rotation)
    IN  PointAdd(component.pos, <<p[1] * m[1] + p[2] * m[2], p[1] * m[3] + p[2] * m[4]>>)

\* info.other['custom_displacement'] of the library's custom kind: what the loader
\* stores for a nested footprint spanning (0,0)-(2,0)
CustomDisplacement == <<-1, 0>>

\* d = self.custom_displacement - self.info.other['custom_displacement'].  A
\* component record without the field stands for one placed with the displacement
\* of its kind.
CustomDelta(component) ==
    IF "custom_displacement" \in DOMAIN component
    THEN <<component.custom_displacement[1] - CustomDisplacement[1],
           component.custom_displacement[2] - CustomDisplacement[2]>>
    ELSE <<0, 0>>

\* CustomComponent.area
CustomComponent_area(component) ==
    [k \in 1..Len(Area(component.kind)) |->
        PointAdd(component.pos,
                 rotate(PointAdd(Area(component.kind)[k], CustomDelta(component)),
                        component.rotation))]

\* TCComponent.area: the cells in the order of info.area
TCComponent_area(component) ==
    [k \in 1..Len(Area(component.kind)) |-> AreaCell(component, Area(component.kind)[k])]

\* component.area(): the method of the component's class
area(component) ==
    IF component.kind = "Custom" THEN CustomComponent_area(component)
    ELSE TCComponent_area(component)

\* component.local_to_global_pos(p): TCComponent's, or CustomComponent's override
local_to_global_pos(component, p) ==
    IF component.kind = "Custom"
    THEN PointAdd(component.pos, rotate(PointAdd(p, CustomDelta(component)), component.rotation))
    ELSE PointAdd(component.pos, rotate(p, component.rotation))

\* global_pos = component.pos + pin.pos.rotate(component.rotation)
GlobalPos(component, pin) == PointAdd(component.pos, rotate(pin.pos, component.rotation))

(***************************************************************************)
(* dict helpers.                                                           *)
(***************************************************************************)
Get(d, k) == IF k \in DOMAIN d THEN d[k] ELSE NoCluster
Put(d, k, v) == [x \in DOMAIN d \cup {k} |-> IF x = k THEN v ELSE d[x]]
Range(s) == {s[i] : i \in DOMAIN s}

(***************************************************************************)
(* TCCircuit.clusters, first loop: one wire.  cl is the pair               *)
(* (all_clusters, point_to_cluster) with the WireCluster objects made so   *)
(* far; all_clusters keeps its keys in insertion order with their values.  *)
(***************************************************************************)
EmptyClusters == [all_clusters |-> <<>>, point_to_cluster |-> <<>>, objects |-> <<>>]

\* case (None, None)
NewCluster(cl, wire_id, wire) ==
    LET new_cluster == Len(cl.objects) + 1
    IN  [all_clusters |-> Append(cl.all_clusters,
                                 [cluster |-> new_cluster, index |-> Len(cl.all_clusters)]),
         point_to_cluster |-> Put(Put(cl.point_to_cluster, wire.start, new_cluster),
                                  wire.end, new_cluster),
         objects |-> Append(cl.objects,
                            [segments |-> <<wire_id>>, points |-> {wire.start, wire.end},
                             sources |-> <<>>, targets |-> <<>>, bidis |-> <<>>])]

\* a plausible slip: the owned end point is ignored and a fresh Net is made
ExtendClusterAsNew(cl, cluster, wire_id, wire) == NewCluster(cl, wire_id, wire)

\* case (cluster, None) | (None, cluster)
ExtendCluster(cl, cluster, wire_id, wire) ==
    [cl EXCEPT !.point_to_cluster = Put(Put(@, wire.start, cluster), wire.end, cluster),
               !.objects[cluster].segments = Append(@, wire_id),
               !.objects[cluster].points = @ \cup {wire.start, wire.end}]

\* case (a, b) if a is b
AppendSegment(cl, a, wire_id) ==
    [cl EXCEPT !.objects[a].segments = Append(@, wire_id)]

\* a plausible slip: b is merged into a but stays in all_clusters
MergeClustersKeepB(cl, a, b, wire_id) ==
    [all_clusters |-> cl.all_clusters,
     point_to_cluster |->
        [p \in DOMAIN cl.point_to_cluster \cup cl.objects[b].points |->
            IF p \in cl.objects[b].points THEN a ELSE cl.point_to_cluster[p]],
     objects |-> [cl.objects EXCEPT
                    ![a].segments = Append(@ \o cl.objects[b].segments, wire_id),
                    ![a].points = @ \cup cl.objects[b].points]]

\* a plausible slip: b's points are not repointed to a
MergeClustersNoRepoint(cl, a, b, wire_id) ==
    LET Keep(e) == e.cluster # b
    IN  [all_clusters |-> SelectSeq(cl.all_clusters, Keep),
         point_to_cluster |-> cl.point_to_cluster,
         objects |-> [cl.objects EXCEPT
                        ![a].segments = Append(@ \o cl.objects[b].segments, wire_id),
                        ![a].points = @ \cup cl.objects[b].points]]

\* case (a, b): the merge
MergeClusters(cl, a, b, wire_id) ==
    LET Keep(e) == e.cluster # b
    IN  [all_clusters |-> SelectSeq(cl.all_clusters, Keep),
         point_to_cluster |->
            [p \in DOMAIN cl.point_to_cluster \cup cl.objects[b].points |->
                IF p \in cl.objects[b].points THEN a ELSE cl.point_to_cluster[p]],
         objects |-> [cl.objects EXCEPT
                        ![a].segments = Append(@ \o cl.objects[b].segments, wire_id),
                        ![a].points = @ \cup cl.objects[b].points]]

\* the body of `for wire_id, wire in self.wires.items()`
ProcessWire(cl, wire_id, wire) ==
    LET s_cluster == Get(cl.point_to_cluster, wire.start)
        e_cluster == Get(cl.point_to_cluster, wire.end)
    IN  CASE e_cluster = NoCluster /\ s_cluster = NoCluster -> NewCluster(cl, wire_id, wire)
          [] e_cluster # NoCluster /\ s_cluster = NoCluster ->
                ExtendCluster(cl, e_cluster, wire_id, wire)
          [] e_cluster = NoCluster /\ s_cluster # NoCluster ->
                ExtendCluster(cl, s_cluster, wire_id, wire)
          [] e_cluster # NoCluster /\ e_cluster = s_cluster ->
                AppendSegment(cl, e_cluster, wire_id)
          [] OTHER -> MergeClusters(cl, e_cluster, s_cluster, wire_id)

(***************************************************************************)
(* TCCircuit.clusters, second loop: one pin.                               *)
(***************************************************************************)
\* a plausible slip: no role is refused
EveryPinKind(kind) == TRUE

\* the roles `match pin.kind` has a case for
KnownPinKind(kind) == kind \in {"bidi", "output", "output_tristate", "input"}

\* a plausible slip: every pin is taken for a target
AttachPinAsTarget(cl, global_pos, kind, component_id, pin_id) ==
    [cl EXCEPT !.objects[cl.point_to_cluster[global_pos]].targets =
                    Append(@, <<component_id, pin_id>>)]

\* the `match pin.kind` of a pin whose global_pos is in point_to_cluster
AttachPin(cl, global_pos, kind, component_id, pin_id) ==
    LET c == cl.point_to_cluster[global_pos]
    IN  CASE kind = "bidi" ->
                [cl EXCEPT !.objects[c].bidis = Append(@, <<component_id, pin_id>>)]
          [] kind \in {"output", "output_tristate"} ->
                [cl EXCEPT !.objects[c].sources = Append(@, <<component_id, pin_id>>)]
          [] kind = "input" ->
                [cl EXCEPT !.objects[c].targets = Append(@, <<component_id, pin_id>>)]
          [] OTHER -> cl

NextCursor(c) ==
    IF c[2] < Len(Pins(components[c[1]].kind)) THEN <<c[1], c[2] + 1>> ELSE <<c[1] + 1, 1>>

(***************************************************************************)
(* The call stack.                                                         *)
(***************************************************************************)
Top == stack[Len(stack)]
Running(point) == stack # <<>> /\ Top = point
Goto(point) == [stack EXCEPT ![Len(stack)] = point]
Pop == SubSeq(stack, 1, Len(stack) - 1)

\* return to the calling frame, or to the caller of the operation
Return(value) ==
    /\ stack' = Pop
    /\ IF Len(stack) = 1
       THEN raised' = "none" /\ returned' = value
       ELSE UNCHANGED <<raised, returned>>

\* no frame catches: the exception reaches the caller of the operation
Raise(error) ==
    /\ stack' = <<>>
    /\ raised' = error
    /\ returned' = "nothing"

\* the caller invokes an operation, the limit-th at most
Invoke(name, limit) ==
    /\ stack = <<>>
    /\ ops < limit
    /\ ops' = ops + 1
    /\ log' = Append(log, name)
    /\ op' = name
    /\ miss' = {}
    /\ raised' = "none"
    /\ returned' = "nothing"
    /\ visited' = <<>>
    /\ invoked' = <<>>
    /\ cid' = 0

\* the caller invokes an operation on the circuit or the compiler
Call(name) == Invoke(name, MaxOps)

(***************************************************************************)
(* TCCircuit.clusters                                                      *)
(***************************************************************************)
CallClusters ==
    /\ Call("clusters")
    /\ stack' = <<"clusters">>
    /\ UNCHANGED <<options, geometry, factory, output, _index, components, wires, _clusters, _dependency_graph, circuit, sorter,
                   wire_i, cursor, dg_i>>

\* if self._clusters is None: self._clusters = (dict(), {})
ClustersEnter ==
    /\ Running("clusters")
    /\ IF _clusters # None
       THEN /\ Return("_clusters")
            /\ UNCHANGED <<_clusters, wire_i, cursor, miss>>
       ELSE /\ _clusters' = Some(EmptyClusters)
            /\ miss' = miss \cup {"clusters"}
            /\ wire_i' = 1
            /\ cursor' = <<1, 1>>
            /\ stack' = Goto(IF Len(wires) = 0 THEN "clusters_pins" ELSE "clusters_wires")
            /\ UNCHANGED <<raised, returned>>
    /\ UNCHANGED <<options, geometry, factory, output, _index, components, wires, _dependency_graph, circuit, sorter, visited, invoked, cid,
                   dg_i, op, log, ops>>

ClustersWire ==
    /\ Running("clusters_wires")
    /\ wire_i <= Len(wires)
    /\ _clusters' = Some(ProcessWire(_clusters[1], wire_i - 1, wires[wire_i]))
    /\ wire_i' = wire_i + 1
    /\ stack' = Goto(IF wire_i = Len(wires) THEN "clusters_pins" ELSE "clusters_wires")
    /\ UNCHANGED <<options, geometry, factory, output, _index, components, wires, _dependency_graph, circuit, sorter, visited, invoked, cid,
                   cursor, dg_i, op, log, miss, raised, returned, ops>>

ClustersPin ==
    /\ Running("clusters_pins")
    /\ cursor[1] <= Len(components)
    /\ LET component_id == cursor[1]
           component == components[component_id]
           pin_id == cursor[2] - 1
           pin == Pins(component.kind)[cursor[2]]
           global_pos == GlobalPos(component, pin)
       IN  IF global_pos \in DOMAIN _clusters[1].point_to_cluster
           THEN IF KnownPinKind(pin.kind)
                THEN /\ _clusters' = Some(AttachPin(_clusters[1], global_pos, pin.kind,
                                                    component_id, pin_id))
                     /\ cursor' = NextCursor(cursor)
                     /\ UNCHANGED <<stack, raised, returned>>
                ELSE /\ Raise("ValueError")
                     /\ UNCHANGED <<_clusters, cursor>>
           ELSE /\ cursor' = NextCursor(cursor)
                /\ UNCHANGED <<_clusters, stack, raised, returned>>
    /\ UNCHANGED <<options, geometry, factory, output, _index, components, wires, _dependency_graph, circuit, sorter, visited, invoked, cid,
                   wire_i, dg_i, op, log, miss, ops>>

ClustersReturn ==
    /\ Running("clusters_pins")
    /\ cursor[1] > Len(components)
    /\ Return("_clusters")
    /\ UNCHANGED <<options, geometry, factory, output, _index, components, wires, _clusters, _dependency_graph, circuit, sorter,
                   visited, invoked, cid, wire_i, cursor, dg_i, op, log, miss, ops>>

\* self._clusters = None
clear_cache == _clusters' = None

\* TCCircuit.clear_cache
ClearCache ==
    /\ Call("clear_cache")
    /\ clear_cache
    /\ stack' = <<>>
    /\ UNCHANGED <<options, geometry, factory, output, _index, components, wires, _dependency_graph, circuit, sorter,
                   wire_i, cursor, dg_i>>

(***************************************************************************)
(* TCCircuit.dependency_graph                                              *)
(***************************************************************************)
CallDependencyGraph ==
    /\ Call("dependency_graph")
    /\ stack' = <<"dependency_graph">>
    /\ UNCHANGED <<options, geometry, factory, output, _index, components, wires, _clusters, _dependency_graph, circuit, sorter,
                   wire_i, cursor, dg_i>>

\* srcs = {comp for comp, _ in cluster.sources}
Srcs(cluster) == {s[1] : s \in Range(cluster.sources)}

\* a plausible slip: the edges are added the wrong way round
AddEdgesReversed(graph, cluster) ==
    [i \in DOMAIN graph |->
        IF i \in Srcs(cluster)
        THEN graph[i] \cup {t[1] : t \in Range(cluster.targets)}
        ELSE graph[i]]

\* for tgt, _ in cluster.targets: self._dependency_graph[tgt].update(srcs)
AddEdges(graph, cluster) ==
    [i \in DOMAIN graph |->
        IF \E t \in Range(cluster.targets) : t[1] = i
        THEN graph[i] \cup Srcs(cluster)
        ELSE graph[i]]

\* a plausible slip: the assertion is not evaluated
AssertSkipped(cluster) == TRUE

\* assert not cluster.bidis
NotBidis(cluster) == cluster.bidis = <<>>

\* if self._dependency_graph is None: self._dependency_graph = {i: set() ...},
\* then the loop header evaluates self.clusters
DependencyGraphEnter ==
    /\ Running("dependency_graph")
    /\ IF _dependency_graph # None
       THEN /\ Return("_dependency_graph")
            /\ UNCHANGED <<_dependency_graph, dg_i, miss>>
       ELSE /\ _dependency_graph' = Some([i \in 1..Len(components) |-> {}])
            /\ miss' = miss \cup {"dependency_graph"}
            /\ dg_i' = 1
            /\ stack' = Append(Goto("dependency_graph_loop"), "clusters")
            /\ UNCHANGED <<raised, returned>>
    /\ UNCHANGED <<options, geometry, factory, output, _index, components, wires, _clusters, circuit, sorter, visited, invoked, cid,
                   wire_i, cursor, op, log, ops>>

\* one Net of `for cluster in self.clusters[0]`
DependencyGraphCluster ==
    /\ Running("dependency_graph_loop")
    /\ dg_i <= Len(_clusters[1].all_clusters)
    /\ LET cluster == _clusters[1].objects[_clusters[1].all_clusters[dg_i].cluster]
       IN  IF NotBidis(cluster)
           THEN /\ _dependency_graph' = Some(AddEdges(_dependency_graph[1], cluster))
                /\ dg_i' = dg_i + 1
                /\ UNCHANGED <<stack, raised, returned>>
           ELSE /\ Raise("AssertionError")
                /\ UNCHANGED <<_dependency_graph, dg_i>>
    /\ UNCHANGED <<options, geometry, factory, output, _index, components, wires, _clusters, circuit, sorter, visited, invoked, cid,
                   wire_i, cursor, op, log, miss, ops>>

DependencyGraphReturn ==
    /\ Running("dependency_graph_loop")
    /\ dg_i > Len(_clusters[1].all_clusters)
    /\ Return("_dependency_graph")
    /\ UNCHANGED <<options, geometry, factory, output, _index, components, wires, _clusters, _dependency_graph, circuit, sorter,
                   visited, invoked, cid, wire_i, cursor, dg_i, op, log, miss, ops>>

(***************************************************************************)
(* TCCircuit.index                                                         *)
(***************************************************************************)
\* wire.path: the polyline of a wire, here its two end points
Path(wire) == <<wire.start, wire.end>>

\* self._index[p].append(entry) on a defaultdict(list)
IndexAppend(ix, p, entry) ==
    Put(ix, p, Append(IF p \in DOMAIN ix THEN ix[p] ELSE <<>>, entry))

\* for p in cells: self._index[p].append(entry), from the k-th cell on
RECURSIVE IndexCells(_, _, _, _)
IndexCells(ix, cells, k, entry) ==
    IF k > Len(cells) THEN ix
    ELSE IndexCells(IndexAppend(ix, cells[k], entry), cells, k + 1, entry)

\* for wid, wire in self.wires.items(), from the i-th wire on
RECURSIVE IndexWires(_, _)
IndexWires(ix, i) ==
    IF i > Len(wires) THEN ix
    ELSE IndexWires(IndexCells(ix, Path(wires[i]), 1, <<"wire", i - 1>>), i + 1)

\* for cid, comp in self.components.items(), from the c-th component on
RECURSIVE IndexComponents(_, _)
IndexComponents(ix, c) ==
    IF c > Len(components) THEN ix
    ELSE IndexComponents(IndexCells(ix, area(components[c]), 1, <<"comp", c>>), c + 1)

\* a plausible slip: the index is built on every access
IndexEnterAlways ==
    /\ Running("index")
    /\ _index' = Some(IndexComponents(IndexWires(<<>>, 1), 1))
    /\ miss' = miss \cup {"index"}
    /\ Return("_index")
    /\ UNCHANGED <<options, geometry, factory, output, components, wires, _clusters, _dependency_graph, circuit,
                   sorter, visited, invoked, cid, wire_i, cursor, dg_i, op, log, ops>>

\* if self._index is None: build it; return self._index
IndexEnter ==
    /\ Running("index")
    /\ IF _index # None
       THEN UNCHANGED <<_index, miss>>
       ELSE /\ _index' = Some(IndexComponents(IndexWires(<<>>, 1), 1))
            /\ miss' = miss \cup {"index"}
    /\ Return("_index")
    /\ UNCHANGED <<options, geometry, factory, output, components, wires, _clusters, _dependency_graph, circuit,
                   sorter, visited, invoked, cid, wire_i, cursor, dg_i, op, log, ops>>

(***************************************************************************)
(* graphlib.TopologicalSorter as _compile_all uses it: the graph maps a    *)
(* node to its predecessors; static_order() first prepares (and raises     *)
(* CycleError on a cycle), then yields the ready nodes group by group.     *)
(***************************************************************************)
\* the nodes that reach node n along one or more edges pred -> node
RECURSIVE Ancestors(_, _, _)
Ancestors(graph, frontier, seen) ==
    LET more == (UNION {graph[n] : n \in frontier}) \ seen
    IN  IF more = {} THEN seen ELSE Ancestors(graph, more, seen \cup more)

\* TopologicalSorter._find_cycle finds one
HasCycle(graph) == \E n \in DOMAIN graph : n \in Ancestors(graph, {n}, {})

\* get_ready() after done(*finished): the nodes all of whose predecessors are done
ReadyGroup(graph, finished) ==
    {n \in DOMAIN graph : n \notin finished /\ graph[n] \subseteq finished}

\* TopologicalSorter(graph).prepare() and the first get_ready()
Prepare(graph) ==
    [graph |-> graph, finished |-> {}, group |-> ReadyGroup(graph, {}), yielded |-> {}]

\* the generator yields a node; after the last node of the group: done(*group), get_ready()
Yield(ts, node) ==
    IF ts.yielded \cup {node} = ts.group
    THEN [ts EXCEPT !.finished = @ \cup ts.group,
                    !.group = ReadyGroup(ts.graph, ts.finished \cup ts.group),
                    !.yielded = {}]
    ELSE [ts EXCEPT !.yielded = @ \cup {node}]

(***************************************************************************)
(* TCCompiler._compile_all                                                 *)
(***************************************************************************)
CallCompileAll ==
    /\ Call("_compile_all")
    /\ stack' = <<"_compile_all">>
    /\ UNCHANGED <<options, geometry, factory, output, _index, components, wires, _clusters, _dependency_graph, circuit, sorter,
                   wire_i, cursor, dg_i>>

\* assert self.circuit is None; self.circuit = circuit; circuit.dependency_graph
CompileAllEnter ==
    /\ Running("_compile_all")
    /\ IF circuit # "None"
       THEN /\ Raise("AssertionError")
            /\ UNCHANGED circuit
       ELSE /\ circuit' = "circuit"
            /\ stack' = Append(Goto("_compile_all_sort"), "dependency_graph")
            /\ UNCHANGED <<raised, returned>>
    /\ UNCHANGED <<options, geometry, factory, output, _index, components, wires, _clusters, _dependency_graph, sorter, visited, invoked, cid,
                   wire_i, cursor, dg_i, op, log, miss, ops>>

\* a plausible slip: the cycle check is skipped and the sorter just starts
SortNoCycleCheck ==
    /\ Running("_compile_all_sort")
    /\ sorter' = Some(Prepare(_dependency_graph[1]))
    /\ stack' = Goto("_compile_all_loop")
    /\ UNCHANGED <<raised, returned>>

\* TopologicalSorter(graph).static_order() up to its first yield
Sort ==
    /\ Running("_compile_all_sort")
    /\ IF HasCycle(_dependency_graph[1])
       THEN /\ Raise("CycleError")
            /\ UNCHANGED sorter
       ELSE /\ sorter' = Some(Prepare(_dependency_graph[1]))
            /\ stack' = Goto("_compile_all_loop")
            /\ UNCHANGED <<raised, returned>>

CompileAllSort ==
    /\ Sort
    /\ UNCHANGED <<options, geometry, factory, output, _index, components, wires, _clusters, _dependency_graph, circuit, visited, invoked, cid,
                   wire_i, cursor, dg_i, op, log, miss, ops>>

(***************************************************************************)
(* The kind hierarchy and TCCompiler._compile: the first entry of the      *)
(* registry whose class the component is an instance of.                   *)
(***************************************************************************)
\* the base class of a class of component_types
Base(class) ==
    CASE class \in {"LevelInput1", "LevelInput8"} -> "LevelInputComponent"
      [] class = "LevelInputComponent" -> "Input"
      [] class \in {"LevelOutput1", "LevelOutput8"} -> "LevelOutputComponent"
      [] class = "LevelOutputComponent" -> "Output"
      [] class \in {"Not", "Nand"} -> "BitwiseLogic"
      [] class = "Switch1" -> "Switch"
      [] class = "Bidirectional1" -> "Bidirectional"
      [] class = "Constant8" -> "Constant"
      [] class = "Constant" -> "SomeConstant"
      [] OTHER -> "TCComponent"

\* the class and its ancestors: isinstance(component, typ) is typ \in Mro(class)
RECURSIVE Mro(_)
Mro(class) == IF class = "TCComponent" THEN {class} ELSE {class} \cup Mro(Base(class))

\* type(comp).__name__
ClassName(kind) == IF kind = "Custom" THEN "CustomComponent" ELSE kind

\* the positions of the registry entries that isinstance accepts
Matches(registry, kind) ==
    {i \in 1..Len(registry) : registry[i][1] \in Mro(ClassName(kind))}

\* a plausible slip: the last matching entry is taken
LastMatch(registry, kind) ==
    IF Matches(registry, kind) = {} THEN 0
    ELSE CHOOSE i \in Matches(registry, kind) : \A j \in Matches(registry, kind) : i >= j

\* for typ, func in self._registry: if isinstance(component, typ); 0: the loop ends
FirstMatch(registry, kind) ==
    IF Matches(registry, kind) = {} THEN 0
    ELSE CHOOSE i \in Matches(registry, kind) : \A j \in Matches(registry, kind) : i <= j

(***************************************************************************)
(* TCCircuit.clusters computed within one step, for a handler whose        *)
(* self.circuit.clusters finds the cache unset.                            *)
(***************************************************************************)
RECURSIVE WiresLoop(_, _)
WiresLoop(cl, i) ==
    IF i > Len(wires) THEN cl ELSE WiresLoop(ProcessWire(cl, i - 1, wires[i]), i + 1)

RECURSIVE PinsLoop(_, _)
PinsLoop(cl, c) ==
    IF c[1] > Len(components) THEN [cl |-> cl, error |-> "none"]
    ELSE LET pin == Pins(components[c[1]].kind)[c[2]]
             global_pos == GlobalPos(components[c[1]], pin)
         IN  IF global_pos \in DOMAIN cl.point_to_cluster
             THEN IF KnownPinKind(pin.kind)
                  THEN PinsLoop(AttachPin(cl, global_pos, pin.kind, c[1], c[2] - 1),
                                NextCursor(c))
                  ELSE [cl |-> cl, error |-> "ValueError"]
             ELSE PinsLoop(cl, NextCursor(c))

\* self.circuit.clusters as a handler evaluates it
ClustersRead ==
    IF _clusters # None THEN [cl |-> _clusters[1], error |-> "none"]
    ELSE PinsLoop(WiresLoop(EmptyClusters, 1), <<1, 1>>)

(***************************************************************************)
(* TC2JSON: the netlist exporter.  st is the exporter's state while a      *)
(* handler runs: nodes, wires, cluster_sources and the error raised.       *)
(***************************************************************************)
\* _get_inputs / _get_outputs: (i, pin, self._get_wire(component, pin)) of the pins
\* of the roles, in pin order
PinsOfKind(component, kinds, cl) ==
    LET pins == Pins(component.kind)
        Wanted(i) == pins[i].kind \in kinds
        ids == SelectSeq([i \in 1..Len(pins) |-> i], Wanted)
    IN  [k \in 1..Len(ids) |->
            <<ids[k] - 1, pins[ids[k]],
              Get(cl.point_to_cluster, GlobalPos(component, pins[ids[k]]))>>]

_get_inputs(component, cl) == PinsOfKind(component, {"input"}, cl)
_get_outputs(component, cl) == PinsOfKind(component, {"output", "output_tristate"}, cl)

Port(name, index) ==
    IF port_as_dict THEN [component |-> name, index |-> index] ELSE <<name, index>>

Fail(st, error) == [st EXCEPT !.error = error]

\* a plausible slip: a second source replaces the first
_register_source_overwrite(st, cluster, name, index, width) ==
    [st EXCEPT !.cluster_sources =
                    Put(@, cluster, [port |-> Port(name, index), width |-> width])]

_register_source(st, cluster, name, index, width) ==
    IF cluster \in DOMAIN st.cluster_sources
    THEN Fail(st, "AssertionError: Bus style wires not supported")
    ELSE [st EXCEPT !.cluster_sources =
                        Put(@, cluster, [port |-> Port(name, index), width |-> width])]

_connect(st, cluster, name, index) ==
    IF cluster \notin DOMAIN st.cluster_sources
    THEN Fail(st, "AssertionError: Missing source for wire cluster")
    ELSE [st EXCEPT !.wires =
                        Append(@, [from |-> st.cluster_sources[cluster].port,
                                   to |-> Port(name, index),
                                   width |-> st.cluster_sources[cluster].width])]

\* self.nodes[name] = data
SetNode(nodes_, name, data) ==
    IF \E i \in 1..Len(nodes_) : nodes_[i].name = name
    THEN [i \in 1..Len(nodes_) |->
            IF nodes_[i].name = name THEN [name |-> name, data |-> data] ELSE nodes_[i]]
    ELSE Append(nodes_, [name |-> name, data |-> data])

NodeIndex(nodes_, name) == CHOOSE i \in 1..Len(nodes_) : nodes_[i].name = name

\* a plausible slip: the name lacks the running number
NewNameBare(st, prefix) ==
    IF numeric_names THEN ToString(Len(st.nodes)) ELSE prefix

\* the name _new_node gives the next node
NewName(st, prefix) ==
    IF numeric_names THEN ToString(Len(st.nodes))
    ELSE prefix \o "_" \o ToString(Len(st.nodes))

_new_node(st, prefix, data) == [st EXCEPT !.nodes = SetNode(@, NewName(st, prefix), data)]

\* index = len(self.nodes[name]['components'])
PortCount(st, name) == Len(st.nodes[NodeIndex(st.nodes, name)].data.components)

\* self.nodes[name]['components'].append(pin.width)
AppendPort(st, name, width) ==
    [st EXCEPT !.nodes[NodeIndex(st.nodes, name)].data.components = Append(@, width)]

\* () = self._get_inputs(comp): unpacking a non-empty iterable into no target
Unpack(st, items) ==
    IF st.error = "none" /\ items # <<>> THEN Fail(st, "ValueError") ELSE st

\* a plausible slip: the port index is read after the width is appended
RECURSIVE RegisterPortsAfterAppend(_, _, _, _)
RegisterPortsAfterAppend(st, outs, k, name) ==
    IF k > Len(outs) \/ st.error # "none" THEN st
    ELSE RegisterPortsAfterAppend(
             _register_source(AppendPort(st, name, outs[k][2].width), outs[k][3],
                              name, PortCount(st, name) + 1, outs[k][2].width),
             outs, k + 1, name)

\* the loop of _compile_input from its k-th output pin on
RECURSIVE RegisterPorts(_, _, _, _)
RegisterPorts(st, outs, k, name) ==
    IF k > Len(outs) \/ st.error # "none" THEN st
    ELSE RegisterPorts(_register_source(AppendPort(st, name, outs[k][2].width), outs[k][3],
                                        name, PortCount(st, name), outs[k][2].width),
                       outs, k + 1, name)

\* the loop of _compile_output from its k-th input pin on
RECURSIVE ConnectPorts(_, _, _, _)
ConnectPorts(st, ins, k, name) ==
    IF k > Len(ins) \/ st.error # "none" THEN st
    ELSE ConnectPorts(_connect(AppendPort(st, name, ins[k][2].width), ins[k][3],
                               name, PortCount(st, name)),
                      ins, k + 1, name)

\* the first loop of _compile_generic
RECURSIVE RegisterAll(_, _, _, _)
RegisterAll(st, outs, k, name) ==
    IF k > Len(outs) \/ st.error # "none" THEN st
    ELSE RegisterAll(_register_source(st, outs[k][3], name, outs[k][1], outs[k][2].width),
                     outs, k + 1, name)

\* the second loop of _compile_generic
RECURSIVE ConnectAll(_, _, _, _)
ConnectAll(st, ins, k, name) ==
    IF k > Len(ins) \/ st.error # "none" THEN st
    ELSE ConnectAll(_connect(st, ins[k][3], name, ins[k][1]), ins, k + 1, name)

\* the node a handler writes to: the condensed node, or a new one
Condensed(func) == condense_io /\ func \in {"_compile_input", "_compile_output"}

NodeName(func, st, component) ==
    CASE func = "_compile_input" ->
            IF condense_io THEN (IF numeric_names THEN "0" ELSE "in") ELSE NewName(st, "in")
      [] func = "_compile_output" ->
            IF condense_io THEN (IF numeric_names THEN "1" ELSE "out") ELSE NewName(st, "out")
      [] OTHER -> NewName(st, ClassName(component.kind))

\* a handler up to its first use of a Net
Node(func, st, component) ==
    CASE func = "_compile_input" ->
            IF condense_io THEN st
            ELSE _new_node(st, "in", [type |-> "Input", components |-> <<>>])
      [] func = "_compile_output" ->
            IF condense_io THEN st
            ELSE _new_node(st, "out", [type |-> "Output", components |-> <<>>])
      [] OTHER -> _new_node(st, ClassName(component.kind),
                            [type |-> ClassName(component.kind)])

_compile_input(st, comp, cl) ==
    LET name == NodeName("_compile_input", st, comp)
    IN  RegisterPorts(Unpack(Node("_compile_input", st, comp), _get_inputs(comp, cl)),
                      _get_outputs(comp, cl), 1, name)

_compile_output(st, comp, cl) ==
    LET name == NodeName("_compile_output", st, comp)
    IN  Unpack(ConnectPorts(Node("_compile_output", st, comp), _get_inputs(comp, cl), 1, name),
               _get_outputs(comp, cl))

\* comp.width: the Constant classes have no such attribute
_compile_constant(st, comp, cl) == Fail(st, "AttributeError")

_compile_generic(st, comp, cl) ==
    LET name == NodeName("_compile_generic", st, comp)
    IN  ConnectAll(RegisterAll(Node("_compile_generic", st, comp),
                               _get_outputs(comp, cl), 1, name),
                   _get_inputs(comp, cl), 1, name)

\* func(self, component): the exporter's state and the clusters cache afterwards
Handle(func, comp) ==
    LET idle == [error |-> "none", output |-> output, clusters |-> _clusters, miss |-> miss]
        st == [nodes |-> nodes[1], wires |-> tc2json_wires[1],
               cluster_sources |-> cluster_sources[1], error |-> "none"]
        Done(r, cl, m) == [error |-> r.error,
                           output |-> <<Some(r.nodes), Some(r.wires), Some(r.cluster_sources)>>,
                           clusters |-> cl, miss |-> m]
        reads == \E i \in DOMAIN Pins(comp.kind) :
                    Pins(comp.kind)[i].kind \in {"input", "output", "output_tristate"}
        read == ClustersRead
        after == IF reads THEN Some(read.cl) ELSE _clusters
        missed == IF reads /\ _clusters = None THEN miss \cup {"clusters"} ELSE miss
    IN  CASE func = "handler" -> idle
          [] func = "_compile_constant" -> [idle EXCEPT !.error = "AttributeError"]
          [] nodes = None -> [idle EXCEPT !.error = "TypeError: NoneType"]
          [] reads /\ read.error # "none" ->
                Done(Fail(Node(func, st, comp), read.error), after, missed)
          [] func = "_compile_input" -> Done(_compile_input(st, comp, read.cl), after, missed)
          [] func = "_compile_output" -> Done(_compile_output(st, comp, read.cl), after, missed)
          [] OTHER -> Done(_compile_generic(st, comp, read.cl), after, missed)

\* a plausible slip: a component no entry matches is passed over
_compile_skip(c) ==
    LET m == FirstMatch(_registry, components[c].kind)
        r == Handle(_registry[m][2], components[c])
    IN  IF m = 0
        THEN UNCHANGED <<visited, invoked, output, _clusters, miss, stack, raised, returned>>
        ELSE /\ visited' = Append(visited, c)
             /\ invoked' = Append(invoked, _registry[m][2])
             /\ nodes' = r.output[1]
             /\ tc2json_wires' = r.output[2]
             /\ cluster_sources' = r.output[3]
             /\ _clusters' = r.clusters
             /\ miss' = r.miss
             /\ IF r.error = "none" THEN UNCHANGED <<stack, raised, returned>>
                ELSE Raise(r.error)

\* a plausible slip: the `return` after func(self, component) is missing, so that
\* every matching entry is invoked
_compile_no_return(c) ==
    LET m == FirstMatch(_registry, components[c].kind)
        r == Handle(_registry[m][2], components[c])
        all == SelectSeq([i \in 1..Len(_registry) |-> i],
                         LAMBDA i : i \in Matches(_registry, components[c].kind))
    IN  IF m = 0
        THEN /\ Raise("TypeError")
             /\ UNCHANGED <<visited, invoked, output, _clusters, miss>>
        ELSE /\ visited' = Append(visited, c)
             /\ invoked' = invoked \o [k \in 1..Len(all) |-> _registry[all[k]][2]]
             /\ nodes' = r.output[1]
             /\ tc2json_wires' = r.output[2]
             /\ cluster_sources' = r.output[3]
             /\ _clusters' = r.clusters
             /\ miss' = r.miss
             /\ IF r.error = "none" THEN UNCHANGED <<stack, raised, returned>>
                ELSE Raise(r.error)

\* self._compile(component) for the component of id c
_compile(c) ==
    LET m == FirstMatch(_registry, components[c].kind)
        r == Handle(_registry[m][2], components[c])
    IN  IF m = 0
        THEN /\ Raise("TypeError")
             /\ UNCHANGED <<visited, invoked, output, _clusters, miss>>
        ELSE /\ visited' = Append(visited, c)
             /\ invoked' = Append(invoked, _registry[m][2])
             /\ nodes' = r.output[1]
             /\ tc2json_wires' = r.output[2]
             /\ cluster_sources' = r.output[3]
             /\ _clusters' = r.clusters
             /\ miss' = r.miss
             /\ IF r.error = "none" THEN UNCHANGED <<stack, raised, returned>>
                ELSE Raise(r.error)

\* a plausible slip: the handler is reached twice for one component
CompileAllVisitTwice ==
    /\ Running("_compile_all_loop")
    /\ \E c \in sorter[1].group \ sorter[1].yielded :
          /\ cid' = c
          /\ visited' = Append(Append(visited, c), c)
          /\ invoked' = Append(Append(invoked, "handler"), "handler")
          /\ sorter' = Some(Yield(sorter[1], c))
    /\ UNCHANGED <<options, geometry, factory, output, _index, components, wires, _clusters, _dependency_graph,
                   circuit, stack, wire_i, cursor, dg_i, op, log, miss, raised, returned, ops>>

\* a plausible slip: the loop runs over the components, not over the sorted order
CompileAllVisitUnsorted ==
    /\ Running("_compile_all_loop")
    /\ \E c \in DOMAIN sorter[1].graph \ sorter[1].finished :
          /\ cid' = c
          /\ visited' = Append(visited, c)
          /\ invoked' = Append(invoked, "handler")
          /\ sorter' = Some([sorter[1] EXCEPT
                                !.finished = @ \cup {c},
                                !.group = DOMAIN sorter[1].graph \ (sorter[1].finished \cup {c}),
                                !.yielded = {}])
    /\ UNCHANGED <<options, geometry, factory, output, _index, components, wires, _clusters, _dependency_graph,
                   circuit, stack, wire_i, cursor, dg_i, op, log, miss, raised, returned, ops>>

\* a plausible slip: the exporter's loop takes the components as they come
CompileAllVisitAnyOrder ==
    /\ Running("_compile_all_loop")
    /\ \E c \in DOMAIN sorter[1].graph \ sorter[1].finished :
          /\ cid' = c
          /\ sorter' = Some([sorter[1] EXCEPT
                                !.finished = @ \cup {c},
                                !.group = DOMAIN sorter[1].graph \ (sorter[1].finished \cup {c}),
                                !.yielded = {}])
          /\ _compile(c)
    /\ UNCHANGED <<options, geometry, factory, _index, components, wires, _dependency_graph, circuit,
                   wire_i, cursor, dg_i, op, log, ops>>

\* one turn of the for loop: the next cid of the order, self._compile(component)
CompileAllVisit ==
    /\ Running("_compile_all_loop")
    /\ \E c \in sorter[1].group \ sorter[1].yielded :
          /\ cid' = c
          /\ sorter' = Some(Yield(sorter[1], c))
          /\ _compile(c)
    /\ UNCHANGED <<options, geometry, factory, _index, components, wires, _dependency_graph, circuit,
                   wire_i, cursor, dg_i, op, log, ops>>

\* a plausible slip: the compiler is not released at the end of the pass
CompileAllReturnBusy ==
    /\ Running("_compile_all_loop")
    /\ sorter[1].group = {}
    /\ Return("None")
    /\ UNCHANGED <<options, geometry, factory, output, _index, components, wires, _clusters, _dependency_graph,
                   circuit, sorter, visited, invoked, cid, wire_i, cursor, dg_i, op, log, miss, ops>>

\* the order is exhausted: self.circuit = None
CompileAllReturn ==
    /\ Running("_compile_all_loop")
    /\ sorter[1].group = {}
    /\ circuit' = "None"
    /\ Return("None")
    /\ UNCHANGED <<options, geometry, factory, output, _index, components, wires, _clusters, _dependency_graph, sorter, visited, invoked, cid,
                   wire_i, cursor, dg_i, op, log, miss, ops>>

(***************************************************************************)
(* TC2JSON.compile                                                         *)
(***************************************************************************)
CallCompile ==
    /\ Invoke("compile", MaxPasses)
    /\ stack' = <<"compile">>
    /\ UNCHANGED <<options, geometry, factory, output, _index, components, wires, _clusters, _dependency_graph,
                   circuit, sorter, wire_i, cursor, dg_i>>

\* the nodes compile starts with: the two condensed nodes, or none
FirstNodes ==
    IF condense_io
    THEN <<[name |-> IF numeric_names THEN "0" ELSE "in",
            data |-> [type |-> "Input", components |-> <<>>]],
           [name |-> IF numeric_names THEN "1" ELSE "out",
            data |-> [type |-> "Output", components |-> <<>>]]>>
    ELSE <<>>

\* self.wires = []; self.nodes = {}; self.cluster_sources = {}; self._compile_all(circuit)
CompileEnter ==
    /\ Running("compile")
    /\ tc2json_wires' = Some(<<>>)
    /\ nodes' = Some(FirstNodes)
    /\ cluster_sources' = Some(<<>>)
    /\ stack' = Append(Goto("compile_return"), "_compile_all")
    /\ UNCHANGED <<options, geometry, factory, _index, components, wires, _clusters, _dependency_graph, circuit,
                   sorter, visited, invoked, cid, wire_i, cursor, dg_i, op, log, miss, raised,
                   returned, ops>>

\* return {'wires': self.wires, 'nodes': self.nodes}
CompileReturn ==
    /\ Running("compile_return")
    /\ Return("netlist")
    /\ UNCHANGED <<options, geometry, factory, output, _index, components, wires, _clusters, _dependency_graph,
                   circuit, sorter, visited, invoked, cid, wire_i, cursor, dg_i, op, log, miss, ops>>

(***************************************************************************)
(* The circuits.                                                           *)
(***************************************************************************)
SeqsUpTo(S, n) == UNION {[1..k -> S] : k \in 0..n}

WirePoints == {<<x, 0>> : x \in 0..MaxX}
ParseWire(a, b) == [start |-> <<a, 0>>, end |-> <<b, 0>>]
ParseComponent(kind, x, rotation) == [kind |-> kind, pos |-> <<x, 0>>, rotation |-> rotation]
AllWires == [start : WirePoints, end : WirePoints]
AllComponents == [kind : Kinds, pos : {<<1, 0>>}, rotation : 0..3]

\* no Net; one Net; two Nets; two Nets merged by a third wire
FewWires ==
    {<<>>,
     <<ParseWire(0, 2)>>,
     <<ParseWire(0, 1), ParseWire(3, 2)>>,
     <<ParseWire(0, 1), ParseWire(2, 3), ParseWire(2, 1)>>}
FewComponents == {<<ParseComponent("LevelOutput1", 1, 0)>>}

\* a circuit as from_parse_state builds it, no derived structure computed yet
Fresh ==
    /\ _clusters = None
    /\ _dependency_graph = None
    /\ circuit = "None"
    /\ sorter = None
    /\ visited = <<>>
    /\ stack = <<>>
    /\ wire_i = 1
    /\ cursor = <<1, 1>>
    /\ dg_i = 1
    /\ op = "none"
    /\ miss = {}
    /\ raised = "none"
    /\ returned = "nothing"
    /\ ops = 0
    /\ _index = None
    /\ nodes = None
    /\ tc2json_wires = None
    /\ cluster_sources = None
    /\ invoked = <<>>
    /\ cid = 0
    /\ log = <<>>
    /\ geometry = None
    /\ cinfo = None

\* a compiler whose one handler takes every component and only looks at it
Framework ==
    /\ _registry = <<<<"TCComponent", "handler">>>>
    /\ condense_io = FALSE
    /\ port_as_dict = FALSE
    /\ numeric_names = FALSE

\* every component list of the library over a few wire lists
Init ==
    /\ wires \in FewWires
    /\ components \in SeqsUpTo(AllComponents, MaxComps)
    /\ Framework
    /\ parse_result = <<>>
    /\ Fresh

Next ==
    \/ CallClusters
    \/ ClustersEnter
    \/ ClustersWire
    \/ ClustersPin
    \/ ClustersReturn
    \/ ClearCache
    \/ CallDependencyGraph
    \/ DependencyGraphEnter
    \/ DependencyGraphCluster
    \/ DependencyGraphReturn
    \/ CallCompileAll
    \/ CompileAllEnter
    \/ CompileAllSort
    \/ CompileAllVisit
    \/ CompileAllReturn

Spec == Init /\ [][Next]_vars

\* every wire list over the wire points, clustered once
InitWires ==
    /\ wires \in SeqsUpTo(AllWires, MaxWires)
    /\ components \in FewComponents
    /\ Framework
    /\ parse_result = <<>>
    /\ Fresh

ReadClusters == ops = 0 /\ CallClusters

NextWires ==
    \/ ReadClusters
    \/ ClustersEnter
    \/ ClustersWire
    \/ ClustersPin
    \/ ClustersReturn

SpecWires == InitWires /\ [][NextWires]_vars

(***************************************************************************)
(* Exported circuits: two level inputs, a gate and two level outputs on    *)
(* a board, wired in a few ways, given to an exporter.                     *)
(***************************************************************************)
Place(kind, x, y) == [kind |-> kind, pos |-> <<x, y>>, rotation |-> 0]
Wire(a, b) == [start |-> a, end |-> b]

\* pins at: (1,0) | (1,2) | (2,0), (2,2), (4,1) | (5,1) | (5,3)
Placed ==
    {Place("LevelInput1", 0, 0), Place("LevelInput8", 0, 2), Place("Nand", 3, 1),
     Place("LevelOutput1", 6, 1), Place("LevelOutput8", 6, 3)}

\* the lists of distinct members of S of length n at most
DistinctSeqs(S, n) ==
    {q \in SeqsUpTo(S, n) : \A i, j \in DOMAIN q : i # j => q[i] # q[j]}

Wirings ==
    {<<>>,
     \* an input to an output
     <<Wire(<<1, 0>>, <<5, 1>>)>>,
     \* both inputs to the gate, the gate to an output
     <<Wire(<<1, 0>>, <<2, 0>>), Wire(<<1, 2>>, <<2, 2>>), Wire(<<4, 1>>, <<5, 1>>)>>,
     \* both inputs drive the Net of an output
     <<Wire(<<1, 0>>, <<1, 2>>), Wire(<<1, 2>>, <<5, 1>>)>>,
     \* the gate's inputs on a Net nothing drives, the gate to an output
     <<Wire(<<2, 0>>, <<2, 2>>), Wire(<<4, 1>>, <<5, 1>>)>>,
     \* the wide input to both outputs
     <<Wire(<<1, 2>>, <<5, 1>>), Wire(<<5, 1>>, <<5, 3>>)>>,
     \* each input to an output of its own
     <<Wire(<<1, 0>>, <<5, 1>>), Wire(<<1, 2>>, <<5, 3>>)>>,
     \* the gate feeds itself
     <<Wire(<<4, 1>>, <<2, 0>>)>>,
     \* both inputs drive one Net, the gate feeds itself
     <<Wire(<<1, 0>>, <<1, 2>>), Wire(<<4, 1>>, <<2, 0>>)>>}

\* the registry __init_subclass__ builds for TC2JSON, in method definition order
TC2JSON ==
    <<<<"LevelInputComponent", "_compile_input">>,
      <<"LevelOutputComponent", "_compile_output">>,
      <<"Constant", "_compile_constant">>,
      <<"TCComponent", "_compile_generic">>>>

\* compilers with the same handlers defined in another order, or without one
Registries ==
    {<<<<"TCComponent", "_compile_generic">>,
       <<"LevelInputComponent", "_compile_input">>,
       <<"LevelOutputComponent", "_compile_output">>>>,
     <<<<"LevelInputComponent", "_compile_input">>,
       <<"LevelOutputComponent", "_compile_output">>>>}

\* --condense-io, --port-as-dict, --numeric-names as given on the command line
Flags ==
    {<<FALSE, FALSE, FALSE>>, <<TRUE, FALSE, FALSE>>, <<FALSE, TRUE, FALSE>>,
     <<TRUE, FALSE, TRUE>>}

InitExport ==
    /\ wires \in Wirings
    /\ components \in DistinctSeqs(Placed, MaxPlaced)
    /\ \/ /\ _registry = TC2JSON
          /\ \E flags \in Flags :
                /\ condense_io = flags[1]
                /\ port_as_dict = flags[2]
                /\ numeric_names = flags[3]
       \/ /\ _registry \in Registries
          /\ condense_io = FALSE
          /\ port_as_dict = FALSE
          /\ numeric_names = FALSE
    /\ parse_result = <<>>
    /\ Fresh

NextExport ==
    \/ CallCompile
    \/ CompileEnter
    \/ CompileAllEnter
    \/ DependencyGraphEnter
    \/ ClustersEnter
    \/ ClustersWire
    \/ ClustersPin
    \/ ClustersReturn
    \/ DependencyGraphCluster
    \/ DependencyGraphReturn
    \/ CompileAllSort
    \/ CompileAllVisit
    \/ CompileAllReturn
    \/ CompileReturn

SpecExport == InitExport /\ [][NextExport]_vars

(***************************************************************************)
(* A circuit whose caller reads the derived structures, clears the cache   *)
(* and changes the wires and the components in between.                    *)
(***************************************************************************)
\* the caller reads a property of the circuit
Access(name) ==
    /\ Invoke(name, MaxAccesses)
    /\ stack' = <<name>>
    /\ UNCHANGED <<options, geometry, factory, output, _index, components, wires, _clusters, _dependency_graph,
                   circuit, sorter, wire_i, cursor, dg_i>>

\* the properties of a circuit that are derived on demand
Derived == {"clusters", "dependency_graph", "index"}

\* the caller calls clear_cache
Invalidate ==
    /\ Invoke("clear_cache", MaxAccesses)
    /\ clear_cache
    /\ stack' = <<>>
    /\ UNCHANGED <<options, geometry, factory, output, _index, components, wires, _dependency_graph, circuit,
                   sorter, wire_i, cursor, dg_i>>

\* pins at (1,0) +- 1: an input and an output facing each other, and a gate
Driver == ParseComponent("LevelInput1", 1, 2)
Sink == ParseComponent("LevelOutput1", 1, 2)
Gate == ParseComponent("Not", 1, 0)

CacheWires == {<<>>, <<ParseWire(0, 2)>>}
CacheComponents == {<<>>, <<Driver, Sink>>, <<Gate>>, <<Sink, Gate>>}
NewWires == {ParseWire(0, 2), ParseWire(3, 2)}
NewComponents == {Driver, Gate}

\* the caller adds a wire or a component: circuit.wires[n] = w, circuit.components[n] = c
Mutate ==
    /\ stack = <<>>
    /\ Cardinality({i \in 1..Len(log) : log[i] = "mutate"}) < MaxMutations
    /\ log' = Append(log, "mutate")
    /\ op' = "mutate"
    /\ \/ \E w \in NewWires : wires' = Append(wires, w) /\ UNCHANGED components
       \/ \E c \in NewComponents : components' = Append(components, c) /\ UNCHANGED wires
    /\ UNCHANGED <<options, geometry, factory, output, _index, _clusters, _dependency_graph, circuit, sorter,
                   visited, invoked, cid, stack, wire_i, cursor, dg_i, miss, raised,
                   returned, ops>>

InitCache ==
    /\ wires \in CacheWires
    /\ components \in CacheComponents
    /\ Framework
    /\ parse_result = <<>>
    /\ Fresh

NextCache ==
    \/ \E name \in Derived : Access(name)
    \/ Invalidate
    \/ Mutate
    \/ ClustersEnter
    \/ ClustersWire
    \/ ClustersPin
    \/ ClustersReturn
    \/ DependencyGraphEnter
    \/ DependencyGraphCluster
    \/ DependencyGraphReturn
    \/ IndexEnter

SpecCache == InitCache /\ [][NextCache]_vars

(***************************************************************************)
(* Placed components whose caller asks for their footprint and for the     *)
(* absolute position of local points.                                      *)
(***************************************************************************)
LocalPoints == (-MaxLocal..MaxLocal) \X (-MaxLocal..MaxLocal)
GeometryKinds == {"Nand", "Not", "LevelInput1", "Custom"}
GeometryPositions == {<<0, 0>>, <<2, -1>>}

\* list(component.area()) for the component of id c
CallArea ==
    \E c \in 1..Len(components) :
        /\ Call("area")
        /\ geometry' = Some([call |-> "area", component |-> c, arg |-> None,
                             value |-> area(components[c])])
        /\ UNCHANGED stack
        /\ UNCHANGED <<options, factory, output, _index, components, wires, _clusters,
                       _dependency_graph, circuit, sorter, wire_i, cursor, dg_i>>

\* component.local_to_global_pos(p) for the component of id c
CallLocalToGlobalPos ==
    \E c \in 1..Len(components) : \E p \in LocalPoints :
        /\ Call("local_to_global_pos")
        /\ geometry' = Some([call |-> "local_to_global_pos", component |-> c, arg |-> p,
                             value |-> local_to_global_pos(components[c], p)])
        /\ UNCHANGED stack
        /\ UNCHANGED <<options, factory, output, _index, components, wires, _clusters,
                       _dependency_graph, circuit, sorter, wire_i, cursor, dg_i>>

InitGeometry ==
    /\ wires = <<>>
    /\ components \in {<<[kind |-> k, pos |-> p, rotation |-> r]>> :
                          k \in GeometryKinds, p \in GeometryPositions, r \in 0..3}
                      \cup {<<[kind |-> "Custom", pos |-> p, rotation |-> r,
                               custom_displacement |-> <<0, 0>>]>> :
                               p \in GeometryPositions, r \in 0..3}
    /\ Framework
    /\ parse_result = <<>>
    /\ Fresh

NextGeometry ==
    \/ CallArea
    \/ CallLocalToGlobalPos

SpecGeometry == InitGeometry /\ [][NextGeometry]_vars

(***************************************************************************)
(* ComponentFactory: the loader of custom kinds.  A custom kind is derived *)
(* from a nested save on first demand.                                     *)
(***************************************************************************)
MaxInner == 2    \* number of components of a nested save
FACTORY_OFFSET == 127

\* TCCircuit.from_parse_state: a component of a has_virtual kind is followed by its
\* counterpart, built from the same parse component
RECURSIVE from_parse_state(_)
from_parse_state(parsed) ==
    IF parsed = <<>> THEN <<>>
    ELSE LET c == Head(parsed)
         IN  (IF Category(c.kind) = "has_virtual"
              THEN <<c, [c EXCEPT !.kind = Counterpart(c.kind)[1]]>>
              ELSE <<c>>) \o from_parse_state(Tail(parsed))

\* (v + FACTORY_OFFSET) // 8, per axis
FactoryCell(p) == <<(p[1] + FACTORY_OFFSET) \div 8, (p[2] + FACTORY_OFFSET) \div 8>>

\* a plausible slip: floor division
Floor2(n) == n \div 2

\* trunc(n / 2): the quotient rounded toward zero
Trunc2(n) == IF n >= 0 THEN n \div 2 ELSE -((-n) \div 2)

Min(S) == CHOOSE x \in S : \A y \in S : x <= y
Max(S) == CHOOSE x \in S : \A y \in S : x >= y

\* the first loop: the cells of the components that are no I/O
InnerCells(schematic) ==
    UNION {{FactoryCell(area(schematic[c])[k]) : k \in 1..Len(area(schematic[c]))} :
              c \in {i \in 1..Len(schematic) : Category(schematic[i].kind) # "is_io"}}

\* if c.info.kind == ComponentCategory.has_virtual: needs_virtual = True.  The
\* kind is a ComponentKind, the right side a ComponentCategory.
NeedsVirtual(schematic) ==
    \E c \in 1..Len(schematic) : schematic[c].kind = "has_virtual"

\* Point(x=trunc(-(maxx + minx) / 2), y=trunc(-(maxy + miny) / 2))
Displacement(cells) ==
    <<Trunc2(-(Max({p[1] : p \in cells}) + Min({p[1] : p \in cells}))),
      Trunc2(-(Max({p[2] : p \in cells}) + Min({p[2] : p \in cells})))>>

\* the kind of the outer pin of an inner I/O component, <<>> for a KeyError
OuterKind(kind) ==
    CASE kind = "input" -> <<"output">>
      [] kind = "output" -> <<"input">>
      [] OTHER -> <<>>

\* the second loop: one outer pin per inner I/O component
OuterPins(schematic, displacement) ==
    LET io == SelectSeq(schematic, LAMBDA c : Category(c.kind) = "is_io")
    IN  [k \in 1..Len(io) |->
            [kind |-> OuterKind(Pins(io[k].kind)[1].kind)[1],
             width |-> Pins(io[k].kind)[1].width,
             pos |-> PointAdd(FactoryCell(io[k].pos), displacement)]]

\* ComponentFactory._fully_load: the ComponentInfo, or the error raised
_fully_load(parsed) ==
    LET schematic == from_parse_state(parsed)
        cells == InnerCells(schematic)
        displacement == Displacement(cells)
        pins == OuterPins(schematic, displacement)
        needs_virtual == NeedsVirtual(schematic)
    IN  IF cells = {} THEN [error |-> "ValueError", cinfo |-> None]
        ELSE IF \E c \in 1..Len(schematic) :
                    /\ Category(schematic[c].kind) = "is_io"
                    /\ OuterKind(Pins(schematic[c].kind)[1].kind) = <<>>
        THEN [error |-> "KeyError", cinfo |-> None]
        ELSE [error |-> "none",
              cinfo |-> Some([kind |-> "Custom",
                              category |-> IF needs_virtual THEN "has_virtual" ELSE "default",
                              pins |-> pins,
                              area |-> {PointAdd(p, displacement) : p \in cells}
                                          \ {pins[k].pos : k \in 1..Len(pins)},
                              counterpart |-> IF needs_virtual THEN Some("VirtualCustom")
                                              ELSE None,
                              other |-> [custom_displacement |-> displacement]])]

CallLoadComponentInfo ==
    /\ Call("load_component_info")
    /\ stack' = <<"load_component_info">>
    /\ UNCHANGED <<options, geometry, factory, output, _index, components, wires, _clusters,
                   _dependency_graph, circuit, sorter, wire_i, cursor, dg_i>>

\* ComponentFactory.load_component_info
LoadComponentInfo ==
    /\ Running("load_component_info")
    /\ LET r == IF cinfo # None THEN [error |-> "none", cinfo |-> cinfo]
                ELSE _fully_load(parse_result)
       IN  /\ cinfo' = r.cinfo
           /\ IF r.error = "none" THEN Return("cinfo") ELSE Raise(r.error)
    /\ UNCHANGED <<options, geometry, parse_result, output, _index, components, wires,
                   _clusters, _dependency_graph, circuit, sorter, visited, invoked, cid,
                   wire_i, cursor, dg_i, op, log, miss, ops>>

\* the components of a nested save: I/O, a gate, a memory; on a row of cells
InnerKinds == {"Input1", "Output1", "OutputZ1", "Not", "DelayLine1"}
InnerPositions ==
    {<<-135, -127>>, <<-127, -127>>, <<-119, -127>>, <<-111, -127>>, <<-127, -119>>}
InnerComponents == [kind : InnerKinds, pos : InnerPositions, rotation : {0}]

InitLoader ==
    /\ wires = <<>>
    /\ components = <<>>
    /\ parse_result \in SeqsUpTo(InnerComponents, MaxInner)
    /\ Framework
    /\ Fresh

NextLoader ==
    \/ CallLoadComponentInfo
    \/ LoadComponentInfo

SpecLoader == InitLoader /\ [][NextLoader]_vars

(***************************************************************************)
(* Circuits with custom components, placed with the displacement of their  *)
(* kind or with another one, whose Nets are computed.                      *)
(***************************************************************************)
CustomPlaced ==
    {[kind |-> "Custom", pos |-> <<1, 0>>, rotation |-> r, custom_displacement |-> d] :
        r \in 0..3, d \in {CustomDisplacement, <<0, 0>>}}
    \cup {ParseComponent("Not", 1, r) : r \in 0..3}

InitCustom ==
    /\ wires \in FewWires
    /\ components \in SeqsUpTo(CustomPlaced, MaxComps)
    /\ parse_result = <<>>
    /\ Framework
    /\ Fresh

SpecCustom == InitCustom /\ [][NextWires]_vars

(***************************************************************************)
(* Circuits on which a derivation fails: a pin of a role clusters has no   *)
(* case for, or a bidi pin on a Net.  The caller reads the derived         *)
(* structures again after the failure.                                     *)
(***************************************************************************)
Probe == ParseComponent("ProbeWireBit", 1, 0)
Bidi == ParseComponent("Custom", 1, 0)

RetryWires == {<<>>, <<ParseWire(0, 2)>>, <<ParseWire(2, 3)>>}
RetryComponents ==
    {<<Probe>>, <<Bidi>>, <<Gate>>, <<Gate, Probe>>, <<Probe, Gate>>, <<Bidi, Probe>>,
     <<Sink, Bidi>>}

InitRetry ==
    /\ wires \in RetryWires
    /\ components \in RetryComponents
    /\ parse_result = <<>>
    /\ Framework
    /\ Fresh

SpecRetry == InitRetry /\ [][NextCache]_vars

(***************************************************************************)
(* What the claims speak of, stated from the circuit alone.                *)
(***************************************************************************)
Finished(name) == op = name /\ stack = <<>>
ComponentIds == 1..Len(components)
PinIndexes(c) == 1..Len(Pins(components[c].kind))
PinKind(c, i) == Pins(components[c].kind)[i].kind
PinPos(c, i) == GlobalPos(components[c], Pins(components[c].kind)[i])

EndPoints == {wires[i].start : i \in 1..Len(wires)} \cup {wires[i].end : i \in 1..Len(wires)}

\* the end points linked to those of `seen` by a chain of wires
RECURSIVE Linked(_)
Linked(seen) ==
    LET touched == UNION {{wires[i].start, wires[i].end} :
                            i \in {j \in 1..Len(wires) :
                                      wires[j].start \in seen \/ wires[j].end \in seen}}
    IN  IF touched \subseteq seen THEN seen ELSE Linked(seen \cup touched)

\* the connected components of the end point graph among `points`
RECURSIVE Components(_)
Components(points) ==
    IF points = {} THEN {}
    ELSE LET c == Linked({CHOOSE p \in points : TRUE})
         IN  {c} \cup Components(points \ c)

Nets(cl) == {cl.all_clusters[i].cluster : i \in 1..Len(cl.all_clusters)}
NetPointSets(cl) == {cl.objects[c].points : c \in Nets(cl)}

\* the first loop of clusters, continued from cl over the wires at the positions
\* `rest` in every order (ids kept), ends with the point sets `sets`
RECURSIVE EveryOrderGives(_, _, _)
EveryOrderGives(cl, rest, sets) ==
    IF rest = {} THEN NetPointSets(cl) = sets
    ELSE \A i \in rest : EveryOrderGives(ProcessWire(cl, i - 1, wires[i]), rest \ {i}, sets)

\* the first loop of clusters has just processed its last wire
WiresProcessed == Running("clusters_pins") /\ cursor = <<1, 1>>

\* number of times the pair occurs in the list
Count(list, pair) == Cardinality({i \in 1..Len(list) : list[i] = pair})

\* number of times the pair occurs in any list of any Net
Attached(cl, pair) ==
    LET RECURSIVE Sum(_)
        Sum(S) == IF S = {} THEN 0
                  ELSE LET c == CHOOSE x \in S : TRUE
                       IN  Count(cl.objects[c].sources, pair)
                           + Count(cl.objects[c].targets, pair)
                           + Count(cl.objects[c].bidis, pair) + Sum(S \ {c})
    IN  Sum(Nets(cl))

\* a pin of a role clusters does not know lies on a wire end point
UnknownPinOnNet ==
    \E c \in ComponentIds : \E i \in PinIndexes(c) :
        PinPos(c, i) \in EndPoints /\ ~KnownPinKind(PinKind(c, i))

\* every pin on a wire end point is an input, an output or an output_tristate
OnlyDirectedPinsOnNets ==
    \A c \in ComponentIds : \A i \in PinIndexes(c) :
        PinPos(c, i) \in EndPoints => PinKind(c, i) \in {"input", "output", "output_tristate"}

\* the components with a source pin on a Net that an input pin of c touches
Predecessors(c) ==
    {s \in ComponentIds : \E i \in PinIndexes(c) : \E j \in PinIndexes(s) :
        /\ PinKind(c, i) = "input"
        /\ PinKind(s, j) \in {"output", "output_tristate"}
        /\ PinPos(c, i) \in EndPoints
        /\ PinPos(s, j) \in Linked({PinPos(c, i)})}

\* the source pins on the Net of the end point p
SourcePinsAt(p) ==
    {pin \in {<<c, i>> : c \in ComponentIds, i \in 1..3} :
        /\ pin[2] \in PinIndexes(pin[1])
        /\ PinKind(pin[1], pin[2]) \in {"output", "output_tristate"}
        /\ PinPos(pin[1], pin[2]) \in Linked({p})}

\* some Net has two or more source pins attached
TwoSourcesOnNet == \E p \in EndPoints : Cardinality(SourcePinsAt(p)) >= 2

Bus == "AssertionError: Bus style wires not supported"
Missing == "AssertionError: Missing source for wire cluster"

(***************************************************************************)
(* The claims.                                                             *)
(***************************************************************************)
\* C1: net clustering is order-independent: whatever the order in which the first
\* loop of clusters processes the wires, the set of the Nets' member-point sets is
\* the one the loop has built.
C1_OrderIndependent ==
    WiresProcessed =>
        EveryOrderGives(EmptyClusters, 1..Len(wires), NetPointSets(_clusters[1]))

\* three wires, two Nets made, one discarded by a merge: the order decided the cases
C1_Witness ==
    /\ WiresProcessed
    /\ Len(wires) = 3
    /\ Len(_clusters[1].objects) = 2
    /\ Len(_clusters[1].all_clusters) = 1

\* C2: after all wires are processed, two end points are in the same Net iff a
\* chain of wires links them: the Nets are the connected components of the end
\* point graph, and every wire is a segment of the Net of its end points.
C2_ConnectedComponents ==
    WiresProcessed =>
        LET cl == _clusters[1]
            linked == Components(EndPoints)
        IN  /\ DOMAIN cl.point_to_cluster = EndPoints
            /\ \A p, q \in EndPoints :
                  (cl.point_to_cluster[p] = cl.point_to_cluster[q])
                      <=> (\E c \in linked : p \in c /\ q \in c)
            /\ NetPointSets(cl) = linked
            /\ \A i \in 1..Len(wires) :
                  Count(cl.objects[cl.point_to_cluster[wires[i].start]].segments, i - 1) = 1

\* three distinct wires that share one point are the three segments of one Net
C2_Witness ==
    /\ WiresProcessed
    /\ Len(wires) = 3
    /\ \E p \in EndPoints :
          /\ \A i \in 1..3 : p \in {wires[i].start, wires[i].end}
          /\ Cardinality(EndPoints) = 4
    /\ Len(_clusters[1].all_clusters) = 1
    /\ Len(_clusters[1].objects[_clusters[1].all_clusters[1].cluster].segments) = 3

\* C3: after each wire processed, every point belongs to at most one surviving Net:
\* the Nets of all_clusters are pairwise disjoint, and every mapped point maps to a
\* Net of all_clusters (never to a discarded one) that contains it.
C3_PointInOneNet ==
    _clusters # None =>
        LET cl == _clusters[1]
        IN  /\ \A i, j \in 1..Len(cl.all_clusters) :
                  i # j => /\ cl.all_clusters[i].cluster # cl.all_clusters[j].cluster
                           /\ cl.objects[cl.all_clusters[i].cluster].points
                                \cap cl.objects[cl.all_clusters[j].cluster].points = {}
            /\ \A p \in DOMAIN cl.point_to_cluster :
                  /\ cl.point_to_cluster[p] \in Nets(cl)
                  /\ p \in cl.objects[cl.point_to_cluster[p]].points

\* a merge has discarded a Net whose points now map to the survivor
C3_Witness ==
    /\ _clusters # None
    /\ \E b \in 1..Len(_clusters[1].objects) :
          /\ b \notin Nets(_clusters[1])
          /\ _clusters[1].objects[b].points # {}
          /\ \A p \in _clusters[1].objects[b].points :
                _clusters[1].point_to_cluster[p] \in Nets(_clusters[1])

\* C4: for a circuit with no bidirectional pin on any Net, dependency_graph has
\* exactly the component ids as keys and maps c to exactly the components with a
\* source pin on a Net that an input pin of c touches (the empty set if there is
\* no such pin).
C4_DependencyGraph ==
    (Finished("dependency_graph") /\ OnlyDirectedPinsOnNets) =>
        /\ raised = "none"
        /\ returned = "_dependency_graph"
        /\ _dependency_graph # None
        /\ DOMAIN _dependency_graph[1] = ComponentIds
        /\ \A c \in ComponentIds : _dependency_graph[1][c] = Predecessors(c)

\* a graph with an edge between two components, one of them without predecessor
C4_Witness ==
    /\ Finished("dependency_graph")
    /\ OnlyDirectedPinsOnNets
    /\ Len(components) = 2
    /\ _dependency_graph[1][2] = {1}
    /\ _dependency_graph[1][1] = {}

\* C5: a compile pass that completes has invoked a handler for every component of
\* the circuit exactly once.
C5_EveryComponentOnce ==
    (Finished("_compile_all") /\ raised = "none") =>
        \A c \in ComponentIds : Count(visited, c) = 1

\* a completed pass over two components, one the predecessor of the other
C5_Witness ==
    /\ Finished("_compile_all")
    /\ raised = "none"
    /\ Len(components) = 2
    /\ _dependency_graph[1][1] = {2}

\* C6: during a compile pass, a handler is invoked for a component only after the
\* handlers of all its predecessors in the dependency graph.
C6_PredecessorsFirst ==
    \A j \in 1..Len(visited) :
        \A pred \in _dependency_graph[1][visited[j]] :
            \E i \in 1..(j - 1) : visited[i] = pred

\* the second component was compiled first because the first depends on it
C6_Witness ==
    /\ op = "_compile_all"
    /\ visited = <<2, 1>>
    /\ 2 \in _dependency_graph[1][1]

\* C7: if the dependency graph has a cycle, the pass fails with an error, returns
\* nothing and no handler has been invoked; the sorter's preparation is what fails
\* (CycleError) whenever the pass gets as far as sorting.
C7_CycleIsFatal ==
    /\ []((_dependency_graph # None /\ HasCycle(_dependency_graph[1])) =>
            /\ visited = <<>>
            /\ ~Running("_compile_all_loop")
            /\ (Finished("_compile_all") =>
                  (/\ raised \in {"CycleError", "AssertionError", "ValueError"}
                   /\ returned = "nothing")))
    /\ [][(Running("_compile_all_sort") /\ HasCycle(_dependency_graph[1])) =>
            (raised' = "CycleError" /\ stack' = <<>> /\ visited' = <<>>)]_vars

\* a pass that ended with CycleError on a component feeding itself
C7_Witness ==
    /\ Finished("_compile_all")
    /\ raised = "CycleError"
    /\ \E c \in ComponentIds : c \in _dependency_graph[1][c]

\* C8: after clustering, an input, output or output_tristate pin whose position is
\* a point of a Net is once in that Net's targets (input) or sources (output,
\* output_tristate) and in no other list of any Net; a pin on no Net is in no list.
C8_PinAttachedOnce ==
    (Finished("clusters") /\ raised = "none" /\ "clusters" \in miss) =>
        LET cl == _clusters[1]
        IN  \A c \in ComponentIds : \A i \in PinIndexes(c) :
                PinKind(c, i) \in {"input", "output", "output_tristate"} =>
                    IF PinPos(c, i) \in EndPoints
                    THEN /\ Attached(cl, <<c, i - 1>>) = 1
                         /\ PinPos(c, i) \in DOMAIN cl.point_to_cluster
                         /\ LET net == cl.objects[cl.point_to_cluster[PinPos(c, i)]]
                            IN  Count(IF PinKind(c, i) = "input"
                                      THEN net.targets ELSE net.sources, <<c, i - 1>>) = 1
                    ELSE Attached(cl, <<c, i - 1>>) = 0

\* a component with its input on a Net and its output on none
C8_Witness ==
    /\ Finished("clusters")
    /\ raised = "none"
    /\ "clusters" \in miss
    /\ \E c \in ComponentIds :
          /\ components[c].kind = "Switch1"
          /\ PinPos(c, 1) \in EndPoints
          /\ PinPos(c, 2) \notin EndPoints
          /\ Attached(_clusters[1], <<c, 0>>) = 1

\* C9: a pin of role 'bidirectional' whose position is a point of a Net is appended
\* to that Net's bidirectional list by clustering, without error.
C9_BidirectionalAttached ==
    (Finished("clusters") /\ "clusters" \in miss) =>
        \A c \in ComponentIds : \A i \in PinIndexes(c) :
            (PinKind(c, i) = "bidirectional" /\ PinPos(c, i) \in EndPoints) =>
                /\ raised = "none"
                /\ Count(_clusters[1].objects[_clusters[1].point_to_cluster[PinPos(c, i)]].bidis,
                         <<c, i - 1>>) = 1

\* C10: constructing the dependency graph of a circuit in which a Net has a
\* non-empty bidirectional list fails and yields no graph: with an AssertionError,
\* unless the clustering this construction asked for has itself failed.
C10_BidiIsFatal ==
    (/\ op \in {"dependency_graph", "_compile_all"}
     /\ stack = <<>>
     /\ "dependency_graph" \in miss
     /\ _clusters # None
     /\ \E c \in Nets(_clusters[1]) : _clusters[1].objects[c].bidis # <<>>) =>
        /\ returned = "nothing"
        /\ raised = IF "clusters" \in miss /\ UnknownPinOnNet
                    THEN "ValueError" ELSE "AssertionError"

\* the construction met a Net with a bidirectional pin and raised
C10_Witness ==
    /\ Finished("dependency_graph")
    /\ "dependency_graph" \in miss
    /\ raised = "AssertionError"
    /\ \E c \in Nets(_clusters[1]) : _clusters[1].objects[c].bidis # <<>>
    /\ Len(components) = 2

C12_MissingSourceImpossible ==
    (Finished("compile") /\ _registry = TC2JSON) => raised # Missing

\* C12 as amended: with the components visited in a valid topological order,
\* _connect fails for lack of a registered source only at an input pin whose Net has
\* no source pin attached or that touches no Net; an input pin on a Net with a
\* source pin attached never triggers the failure.
C12_MissingSourceOnlyUndriven ==
    (Finished("compile") /\ _registry = TC2JSON /\ raised = Missing) =>
        /\ C6_PredecessorsFirst
        /\ \E i \in PinIndexes(cid) :
              /\ PinKind(cid, i) = "input"
              /\ Get(_clusters[1].point_to_cluster, PinPos(cid, i))
                    \notin DOMAIN cluster_sources[1]
              /\ \/ PinPos(cid, i) \notin EndPoints
                 \/ SourcePinsAt(PinPos(cid, i)) = {}
        /\ \A i \in PinIndexes(cid) :
              (/\ PinKind(cid, i) = "input"
               /\ PinPos(cid, i) \in EndPoints
               /\ SourcePinsAt(PinPos(cid, i)) # {}) =>
                    Get(_clusters[1].point_to_cluster, PinPos(cid, i))
                        \in DOMAIN cluster_sources[1]

\* the gate was visited after its predecessors and has its inputs on a Net that
\* nothing drives
C12_Witness ==
    /\ Finished("compile")
    /\ _registry = TC2JSON
    /\ raised = Missing
    /\ components[cid].kind = "Nand"
    /\ PinPos(cid, 1) \in EndPoints
    /\ SourcePinsAt(PinPos(cid, 1)) = {}
    /\ Len(visited) > 1

\* C13: when the component the loop has reached matches no entry of the registry,
\* the pass ends with TypeError and returns nothing, no handler has been invoked for
\* that component, and the components after it in the order are never visited; the
\* pass ends with TypeError in no other case.
C13_UnhandledIsFatal ==
    /\ (op = "compile" /\ cid # 0 /\ Matches(_registry, components[cid].kind) = {}) =>
          /\ stack = <<>>
          /\ raised = "TypeError"
          /\ returned = "nothing"
          /\ \A k \in 1..Len(visited) : visited[k] # cid
          /\ Len(visited) + 1 = Cardinality(sorter[1].finished \cup sorter[1].yielded)
    /\ raised = "TypeError" =>
          /\ cid # 0
          /\ Matches(_registry, components[cid].kind) = {}

\* the gate has no handler: the input before it was exported, the output after it
\* was not visited
C13_Witness ==
    /\ Finished("compile")
    /\ raised = "TypeError"
    /\ components[cid].kind = "Nand"
    /\ Len(visited) = 2
    /\ Len(components) = 4

\* C14: dispatch selects by most-derived applicable kind: when the registry has an
\* entry for a class K and one for an ancestor of K, a component that is an instance
\* of K goes to K's handler, whichever of the two was registered first.
C14_MostDerivedHandler ==
    \A k \in 1..Len(visited) :
        \A i, j \in Matches(_registry, components[visited[k]].kind) :
            (i # j /\ _registry[j][1] \in Mro(_registry[i][1])) =>
                invoked[k] # _registry[j][2]

\* C14 as amended: dispatch selects by registration order among the applicable
\* kinds: when the registry has an entry for a class K and one for an ancestor of K,
\* a component that is an instance of K never goes to the one of the two that was
\* registered later, be it K's or the ancestor's.
C14_EarlierRegisteredHandler ==
    \A k \in 1..Len(visited) :
        \A i, j \in Matches(_registry, components[visited[k]].kind) :
            (i < j /\ (_registry[j][1] \in Mro(_registry[i][1])
                        \/ _registry[i][1] \in Mro(_registry[j][1]))) =>
                invoked[k] # _registry[j][2]

\* a level input went to the handler of TCComponent, registered before the handler
\* of LevelInputComponent
C14_Witness ==
    \E k \in 1..Len(visited) :
        /\ components[visited[k]].kind = "LevelInput1"
        /\ invoked[k] = "_compile_generic"
        /\ \E i, j \in 1..Len(_registry) :
              /\ i < j
              /\ _registry[i] = <<"TCComponent", "_compile_generic">>
              /\ _registry[j] = <<"LevelInputComponent", "_compile_input">>

\* C15: a compiler instance performs a single pass: the pass invoked on an instance
\* whose earlier pass ran to completion (its circuit field is None again, which an
\* aborted pass never leaves behind) is rejected with an AssertionError and starts
\* no traversal.
C15_SecondPassRejected ==
    [][(Running("_compile_all") /\ ops >= 2 /\ circuit = "None") =>
            (raised' = "AssertionError" /\ stack' = <<>>)]_vars

\* C15 as amended: a pass that runs to completion releases the instance (circuit is
\* None again), and a pass invoked on a released instance is accepted and starts a
\* traversal of its own, which visits every component once when it completes; only
\* a pass invoked while the circuit field is still set is rejected with an
\* AssertionError, before any traversal.
C15_SecondPassAccepted ==
    /\ []((Finished("compile") /\ raised = "none") =>
            /\ circuit = "None"
            /\ returned = "netlist"
            /\ \A c \in ComponentIds : Count(visited, c) = 1)
    /\ [][Running("_compile_all") =>
            IF circuit = "None"
            THEN /\ circuit' = "circuit"
                 /\ Running("dependency_graph")'
                 /\ raised' = "none"
            ELSE /\ raised' = "AssertionError"
                 /\ stack' = <<>>
                 /\ visited' = <<>>
                 /\ UNCHANGED <<circuit, output>>]_vars

\* the second export of one exporter returned a netlist of a circuit of three
C15_Witness ==
    /\ Finished("compile")
    /\ ops = 2
    /\ returned = "netlist"
    /\ Len(visited) = 3

\* the caller changed the circuit, then called clear_cache, and the access of the
\* named property that has just returned is the first one since that call
FirstAccessAfterClear(name) ==
    /\ Finished(name)
    /\ \E i \in 1..Len(log) : \E j \in (i + 1)..(Len(log) - 1) :
          /\ log[i] = "mutate"
          /\ log[j] = "clear_cache"
          /\ \A k \in (j + 1)..(Len(log) - 1) : log[k] # name

\* C16: after the component/wire sets change and clear_cache is called, the next
\* access of dependency_graph is recomputed from the current components and wires:
\* it returns the predecessors of the current circuit, never the graph cached
\* before the call.
C16_ClearCacheInvalidatesGraph ==
    FirstAccessAfterClear("dependency_graph") =>
        /\ "dependency_graph" \in miss
        /\ DOMAIN _dependency_graph[1] = ComponentIds
        /\ \A c \in ComponentIds : _dependency_graph[1][c] = Predecessors(c)

\* the cache and the result tag of a derived property
Cache(name) ==
    CASE name = "clusters" -> _clusters
      [] name = "dependency_graph" -> _dependency_graph
      [] name = "index" -> _index
ResultOf(name) ==
    CASE name = "clusters" -> "_clusters"
      [] name = "dependency_graph" -> "_dependency_graph"
      [] name = "index" -> "_index"

\* the loops that fill the cache of the property are on the stack
Computing(name) ==
    \E k \in 1..Len(stack) :
        \/ name = "clusters" /\ stack[k] \in {"clusters_wires", "clusters_pins"}
        \/ name = "dependency_graph" /\ stack[k] = "dependency_graph_loop"

\* the property was accessed before the access that has just returned, and
\* clear_cache was not called since if the property is clusters
AccessedBefore(name) ==
    /\ Finished(name)
    /\ \E i \in 1..(Len(log) - 1) :
          /\ log[i] = name
          /\ name = "clusters" => \A k \in i..Len(log) : log[k] # "clear_cache"

\* C17: once clusters, dependency_graph or index has been computed, every later
\* access without an invalidation of that cache in between returns the cached
\* structure without recomputing it: the access is no cache miss, and a filled
\* cache is changed by no step but the loops that fill it and, for clusters,
\* clear_cache - in particular not by a change of the components or the wires.
C17_Memoized ==
    /\ [](\A name \in Derived :
            AccessedBefore(name) =>
                /\ name \notin miss
                /\ raised = "none"
                /\ returned = ResultOf(name)
                /\ Cache(name) # None)
    /\ [][\A name \in Derived :
            (Cache(name) # None /\ ~Computing(name)) =>
                \/ Cache(name)' = Cache(name)
                \/ name = "clusters" /\ op' = "clear_cache" /\ _clusters' = None]_vars

\* dependency_graph is read, the circuit is changed so that the graph differs,
\* and dependency_graph is read again: the second access is a hit on the old graph
C17_Witness ==
    /\ Finished("dependency_graph")
    /\ log = <<"dependency_graph", "mutate", "dependency_graph">>
    /\ "dependency_graph" \notin miss
    /\ returned = "_dependency_graph"
    /\ \E c \in ComponentIds :
          c \notin DOMAIN _dependency_graph[1] \/ _dependency_graph[1][c] # Predecessors(c)

\* an export with the registry of TC2JSON has returned the netlist
Exported == Finished("compile") /\ raised = "none" /\ returned = "netlist" /\ _registry = TC2JSON

IsA(c, class) == class \in Mro(ClassName(components[c].kind))

\* the pins of the roles of component c, in pin order, as pin indexes
PinsOf(c, roles) ==
    SelectSeq([i \in 1..Len(Pins(components[c].kind)) |-> i],
              LAMBDA i : PinKind(c, i) \in roles)

SourceRoles == {"output", "output_tristate"}

\* the Net of pin i of component c, NoCluster if it lies on no wire
NetOf(c, i) == Get(_clusters[1].point_to_cluster, PinPos(c, i))

\* the (component, pin) pairs of the roles on the components of the class among the
\* first k visited ones, in visit order
RECURSIVE PortsOf(_, _, _)
PortsOf(k, class, roles) ==
    IF k = 0 THEN <<>>
    ELSE PortsOf(k - 1, class, roles)
         \o (IF IsA(visited[k], class)
             THEN [j \in 1..Len(PinsOf(visited[k], roles)) |->
                      <<visited[k], PinsOf(visited[k], roles)[j]>>]
             ELSE <<>>)

WidthOf(pin) == Pins(components[pin[1]].kind)[pin[2]].width

\* the names of the two condensed nodes
InName == IF numeric_names THEN "0" ELSE "in"
OutName == IF numeric_names THEN "1" ELSE "out"

NodesOfType(type) == {i \in 1..Len(nodes[1]) : nodes[1][i].data.type = type}
NodeNamed(name) == nodes[1][NodeIndex(nodes[1], name)]

\* scenario 1: one 1-bit input wired directly to one 1-bit output
Scenario1 ==
    /\ components = <<Place("LevelInput1", 0, 0), Place("LevelOutput1", 6, 1)>>
    /\ wires = <<Wire(<<1, 0>>, <<5, 1>>)>>
    /\ condense_io /\ ~port_as_dict /\ ~numeric_names

Scenario1Netlist ==
    /\ nodes[1] = <<[name |-> "in", data |-> [type |-> "Input", components |-> <<1>>]],
                    [name |-> "out", data |-> [type |-> "Output", components |-> <<1>>]]>>
    /\ tc2json_wires[1] = <<[from |-> <<"in", 0>>, to |-> <<"out", 0>>, width |-> 1]>>

\* C18: in a completed export with condensed I/O the node map has exactly one
\* Input node, named in (0 with numeric names), and one Output node, named out
\* (1); the k-th output pin of the level inputs in visit order is registered as
\* port k-1 of in with its width, the k-th input pin of the level outputs is the
\* target, as port k-1 of out, of exactly one wire; every wire has the width of
\* the source pin registered for its Net; scenario 1 gives in and out with one
\* port each and the single wire from ["in",0] to ["out",0] of width 1.
C18_CondensedIO ==
    (Exported /\ condense_io) =>
        LET ins == PortsOf(Len(visited), "LevelInputComponent", SourceRoles)
            outs == PortsOf(Len(visited), "LevelOutputComponent", {"input"})
            sources == cluster_sources[1]
        IN  /\ NodesOfType("Input") = {NodeIndex(nodes[1], InName)}
            /\ NodesOfType("Output") = {NodeIndex(nodes[1], OutName)}
            /\ Cardinality({i \in 1..Len(nodes[1]) : nodes[1][i].name \in {InName, OutName}}) = 2
            /\ NodeNamed(InName).data.components = [k \in 1..Len(ins) |-> WidthOf(ins[k])]
            /\ NodeNamed(OutName).data.components = [k \in 1..Len(outs) |-> WidthOf(outs[k])]
            /\ \A k \in 1..Len(ins) :
                  /\ NetOf(ins[k][1], ins[k][2]) \in DOMAIN sources
                  /\ sources[NetOf(ins[k][1], ins[k][2])] =
                        [port |-> Port(InName, k - 1), width |-> WidthOf(ins[k])]
            /\ \A k \in 1..Len(outs) :
                  /\ NetOf(outs[k][1], outs[k][2]) \in DOMAIN sources
                  /\ Cardinality({w \in 1..Len(tc2json_wires[1]) :
                                     tc2json_wires[1][w].to = Port(OutName, k - 1)}) = 1
                  /\ \E w \in 1..Len(tc2json_wires[1]) :
                        /\ tc2json_wires[1][w].to = Port(OutName, k - 1)
                        /\ tc2json_wires[1][w].from = sources[NetOf(outs[k][1], outs[k][2])].port
            /\ \A w \in 1..Len(tc2json_wires[1]) :
                  \E c \in ComponentIds : \E i \in PinIndexes(c) :
                      /\ PinKind(c, i) \in SourceRoles
                      /\ NetOf(c, i) \in DOMAIN sources
                      /\ sources[NetOf(c, i)].port = tc2json_wires[1][w].from
                      /\ tc2json_wires[1][w].width = WidthOf(<<c, i>>)
            /\ Scenario1 => Scenario1Netlist

\* two level inputs and two level outputs condensed into in and out with two
\* ports each, the 8-bit input visited before the 1-bit one
C18_Witness ==
    /\ Exported
    /\ condense_io
    /\ NodeNamed(InName).data.components = <<8, 1>>
    /\ Len(NodeNamed(OutName).data.components) = 2
    /\ Len(tc2json_wires[1]) = 2

\* the name of the node of the k-th visited component in a non-condensed export
NameOfVisited(k) ==
    LET c == visited[k]
        prefix == IF IsA(c, "LevelInputComponent") THEN "in"
                  ELSE IF IsA(c, "LevelOutputComponent") THEN "out"
                  ELSE ClassName(components[c].kind)
    IN  IF numeric_names THEN ToString(k - 1) ELSE prefix \o "_" \o ToString(k - 1)

\* the port the j-th input pin, pin i, of the k-th visited component is wired to
TargetPort(k, j, i) ==
    Port(NameOfVisited(k), IF IsA(visited[k], "LevelOutputComponent") THEN j - 1 ELSE i - 1)

WiresTo(port) == {w \in 1..Len(tc2json_wires[1]) : tc2json_wires[1][w].to = port}
WiresFrom(port) == {w \in 1..Len(tc2json_wires[1]) : tc2json_wires[1][w].from = port}

InputPins == {pin \in ComponentIds \X (1..3) : pin[2] \in PinIndexes(pin[1])
                                                /\ PinKind(pin[1], pin[2]) = "input"}

\* scenario 2: inputs A and B feed a two-input gate whose output feeds output C
Scenario2 ==
    /\ Range(components) = {Place("LevelInput1", 0, 0), Place("LevelInput8", 0, 2),
                            Place("Nand", 3, 1), Place("LevelOutput1", 6, 1)}
    /\ Len(components) = 4
    /\ wires = <<Wire(<<1, 0>>, <<2, 0>>), Wire(<<1, 2>>, <<2, 2>>), Wire(<<4, 1>>, <<5, 1>>)>>

\* C19: in a non-condensed export that completes, the k-th visited component has
\* the k-th node and there are as many nodes as components; every input pin is the
\* target of exactly one wire, which comes from the port registered as source of
\* the pin's Net and goes to the pin's node, and there is no other wire; scenario
\* 2 gives 4 nodes and 3 wires, two into the gate's node and one out of it.
C19_NodePerComponent ==
    (Exported /\ ~condense_io) =>
        LET sources == cluster_sources[1]
        IN  /\ Len(nodes[1]) = Len(components)
            /\ Len(visited) = Len(components)
            /\ \A k \in 1..Len(visited) :
                  /\ nodes[1][k].name = NameOfVisited(k)
                  /\ \A j \in 1..Len(PinsOf(visited[k], {"input"})) :
                        LET i == PinsOf(visited[k], {"input"})[j]
                        IN  /\ Cardinality(WiresTo(TargetPort(k, j, i))) = 1
                            /\ NetOf(visited[k], i) \in DOMAIN sources
                            /\ \A w \in WiresTo(TargetPort(k, j, i)) :
                                  tc2json_wires[1][w].from = sources[NetOf(visited[k], i)].port
            /\ Len(tc2json_wires[1]) = Cardinality(InputPins)
            /\ Scenario2 =>
                  \E k \in 1..4 :
                      /\ components[visited[k]].kind = "Nand"
                      /\ Len(nodes[1]) = 4
                      /\ Len(tc2json_wires[1]) = 3
                      /\ Cardinality(WiresTo(Port(NameOfVisited(k), 0))
                                     \cup WiresTo(Port(NameOfVisited(k), 1))) = 2
                      /\ Cardinality(WiresFrom(Port(NameOfVisited(k), 2))) = 1

\* scenario 2 exported with the default options: 4 nodes and 3 wires
C19_Witness ==
    /\ Exported
    /\ ~condense_io /\ ~port_as_dict /\ ~numeric_names
    /\ Scenario2
    /\ Len(nodes[1]) = 4
    /\ Len(tc2json_wires[1]) = 3
    /\ \E k \in 1..4 : nodes[1][k].name = "Nand_2" /\ WiresFrom(<<"Nand_2", 2>>) # {}

\* a quarter turn as the claim states it: (x, y) goes to (-y, x)
R1(p) == <<-p[2], p[1]>>

\* R_r(x, y) as the claim lists it
R(r, p) ==
    CASE r = 0 -> p
      [] r = 1 -> <<-p[2], p[1]>>
      [] r = 2 -> <<-p[1], -p[2]>>
      [] r = 3 -> <<p[2], -p[1]>>

\* the quarter turn applied n times
RECURSIVE Turns(_, _)
Turns(p, n) == IF n = 0 THEN p ELSE Turns(R1(p), n - 1)

\* C20: for every rotation r in 0..3 the footprint cell of local cell (x,y) is
\* pos + R_r(x,y), with R_0 the identity, R_1 = (-y,x), R_2 = (-x,-y) and
\* R_3 = (y,-x); R_r is the quarter turn R_1 applied r times, and four quarter
\* turns are the identity; local_to_global_pos maps a local point by the same R_r,
\* as does the pin position clusters computes.  The local cell of a custom
\* component is the cell of its kind moved by the component's displacement.
C20_Rotation ==
    /\ geometry # None =>
          LET g == geometry[1]
              comp == components[g.component]
              Local(p) == PointAdd(p, CustomDelta(comp))
          IN  /\ comp.rotation \in 0..3
              /\ g.call = "area" =>
                    /\ Len(g.value) = Len(Area(comp.kind))
                    /\ \A k \in 1..Len(g.value) :
                          /\ g.value[k]
                                = PointAdd(comp.pos, R(comp.rotation, Local(Area(comp.kind)[k])))
                          /\ R(comp.rotation, Area(comp.kind)[k])
                                = Turns(Area(comp.kind)[k], comp.rotation)
              /\ g.call = "local_to_global_pos" =>
                    /\ g.value = PointAdd(comp.pos, R(comp.rotation, Local(g.arg)))
                    /\ R(comp.rotation, g.arg) = Turns(g.arg, comp.rotation)
                    /\ Turns(g.arg, 4) = g.arg
    /\ \A c \in ComponentIds : \A i \in PinIndexes(c) :
          PinPos(c, i) = PointAdd(components[c].pos,
                                  R(components[c].rotation, Pins(components[c].kind)[i].pos))

\* the footprint of a gate turned by three quarters: its cell (-1,1) lies at (1,1)
C20_Witness ==
    /\ geometry # None
    /\ geometry[1].call = "area"
    /\ components[1] = [kind |-> "Nand", pos |-> <<0, 0>>, rotation |-> 3]
    /\ geometry[1].value[4] = <<1, 1>>

\* the loader has derived the custom kind from the nested save
Loaded == Finished("load_component_info") /\ raised = "none" /\ cinfo # None

\* the nested schematic and its footprint cells that belong to no I/O component
Nested == from_parse_state(parse_result)
Footprint ==
    UNION {{FactoryCell(PointAdd(Nested[c].pos, rotate(Area(Nested[c].kind)[k], Nested[c].rotation))) :
               k \in 1..Len(Area(Nested[c].kind))} :
              c \in {i \in 1..Len(Nested) : Category(Nested[i].kind) # "is_io"}}

\* C22: when the nested schematic contains a component whose kind has category
\* has_virtual, the descriptor the loader produces has category has_virtual and
\* the counterpart VirtualCustom; otherwise category default and no counterpart.
C22_VirtualPropagates ==
    Loaded =>
        IF \E c \in 1..Len(Nested) : Category(Nested[c].kind) = "has_virtual"
        THEN cinfo[1].category = "has_virtual" /\ cinfo[1].counterpart = Some("VirtualCustom")
        ELSE cinfo[1].category = "default" /\ cinfo[1].counterpart = None

Abs(n) == IF n >= 0 THEN n ELSE -n

\* d is n / 2 rounded toward zero
TowardZero(d, n) == d * n >= 0 /\ Abs(n) - 2 * Abs(d) \in {0, 1}

Spans(a, b) ==
    /\ a \in Footprint /\ b \in Footprint
    /\ \A p \in Footprint : a[1] <= p[1] /\ p[1] <= b[1] /\ a[2] <= p[2] /\ p[2] <= b[2]

\* C23: the recentering displacement of a custom kind is, per axis, the negated
\* sum of the least and the greatest coordinate of its non-I/O footprint cells,
\* halved and rounded toward zero: the single cell (0,0) gives (0,0), a footprint
\* spanning (0,0)-(2,0) gives (-1,0), one spanning (0,0)-(1,0) gives (0,0).
C23_Displacement ==
    Loaded =>
        LET d == cinfo[1].other.custom_displacement
            xs == {p[1] : p \in Footprint}
            ys == {p[2] : p \in Footprint}
        IN  /\ Footprint # {}
            /\ TowardZero(d[1], -(Max(xs) + Min(xs)))
            /\ TowardZero(d[2], -(Max(ys) + Min(ys)))
            /\ Footprint = {<<0, 0>>} => d = <<0, 0>>
            /\ Spans(<<0, 0>>, <<2, 0>>) => d = <<-1, 0>>
            /\ Spans(<<0, 0>>, <<1, 0>>) => d = <<0, 0>>

\* a footprint spanning (0,0)-(1,0): the half of -1 is rounded to 0, not to -1
C23_Witness ==
    /\ Loaded
    /\ Spans(<<0, 0>>, <<1, 0>>)
    /\ cinfo[1].other.custom_displacement = <<0, 0>>

\* the (component id, pin id) pairs in the lists of the Net
PinsOn(cluster) == Range(cluster.sources) \cup Range(cluster.targets) \cup Range(cluster.bidis)

\* C21: for every placed component, a custom component with a stored displacement
\* other than its kind's included, clustering attaches a pin at the component's
\* own local_to_global_pos of the pin: the pin is in the lists of a Net exactly if
\* that position is a point of the Net.
C21_PinAtLocalToGlobalPos ==
    (Finished("clusters") /\ raised = "none") =>
        \A c \in ComponentIds : \A i \in PinIndexes(c) : \A n \in Nets(_clusters[1]) :
            <<c, i - 1>> \in PinsOn(_clusters[1].objects[n])
                <=> local_to_global_pos(components[c], Pins(components[c].kind)[i].pos)
                        \in _clusters[1].objects[n].points

\* the roles clusters has a case for
MatchedRoles == {"bidi", "output", "output_tristate", "input"}

\* the pins of a role clusters has no case for
UnmatchedPins ==
    {pin \in ComponentIds \X (1..3) :
        pin[2] \in PinIndexes(pin[1]) /\ PinKind(pin[1], pin[2]) \notin MatchedRoles}

\* C24: clustering a circuit that contains a pin of a role that is not one of the
\* recognized ones fails with ValueError, whether or not the pin lies on a Net.
C24_UnknownRoleAlwaysFatal ==
    (Finished("clusters") /\ "clusters" \in miss /\ UnmatchedPins # {}) =>
        raised = "ValueError"

\* C24 as amended: computing the Nets of a circuit fails with ValueError exactly if
\* a pin of a role clusters has no case for lies on a Net; such a pin on no Net is
\* not examined and the computation succeeds.
C24_UnknownRoleOnNetFatal ==
    (Finished("clusters") /\ "clusters" \in miss) =>
        /\ raised \in {"none", "ValueError"}
        /\ raised = "ValueError"
              <=> \E pin \in UnmatchedPins : PinPos(pin[1], pin[2]) \in EndPoints
        /\ raised = "none" => returned = "_clusters"

\* a probe whose pin lies on no wire: the Nets are computed without error
C24_Witness ==
    /\ Finished("clusters")
    /\ "clusters" \in miss
    /\ raised = "none"
    /\ wires # <<>>
    /\ \E pin \in UnmatchedPins : PinPos(pin[1], pin[2]) \notin EndPoints

\* C25: for each visited component exactly one handler is invoked: that of the
\* first entry of the registry, in registration order, whose class is the class of
\* the component or one of its ancestors; no later matching entry is invoked.
C25_FirstMatchOnly ==
    /\ Len(invoked) = Len(visited)
    /\ \A k \in 1..Len(visited) :
          LET classes == Mro(ClassName(components[visited[k]].kind))
          IN  \E i \in 1..Len(_registry) :
                  /\ _registry[i][1] \in classes
                  /\ \A j \in 1..(i - 1) : _registry[j][1] \notin classes
                  /\ invoked[k] = _registry[i][2]

\* an export of TC2JSON has completed in which a level output, which the entries of
\* LevelOutputComponent and of TCComponent both match, went to _compile_output
C25_Witness ==
    /\ Exported
    /\ \E k \in 1..Len(visited) :
          /\ components[visited[k]].kind = "LevelOutput8"
          /\ invoked[k] = "_compile_output"
          /\ Cardinality(Matches(_registry, "LevelOutput8")) = 2

\* the circuit is as it was constructed
Unchanged == \A i \in 1..Len(log) : log[i] # "mutate"

\* some Net of the circuit has a bidi pin on one of its points
BidiPinOnNet ==
    \E c \in ComponentIds : \E i \in PinIndexes(c) :
        PinKind(c, i) = "bidi" /\ PinPos(c, i) \in EndPoints

\* C26: a failed derivation never populates the cache: when clusters has raised
\* for a pin of an unmatched role, or dependency_graph for a Net with a bidi pin,
\* the cached field is unset afterwards, and every later access of the property on
\* the same circuit raises the same error again.
C26_FailureLeavesCacheUnset ==
    /\ (Finished("clusters") /\ raised = "ValueError") => _clusters = None
    /\ (Finished("dependency_graph") /\ raised # "none") => _dependency_graph = None
    /\ (/\ Finished("clusters") /\ Unchanged
        /\ \E pin \in UnmatchedPins : PinPos(pin[1], pin[2]) \in EndPoints)
            => raised = "ValueError"
    /\ (/\ Finished("dependency_graph") /\ Unchanged
        /\ BidiPinOnNet /\ UnmatchedPins = {})
            => raised = "AssertionError"

\* the input pins on the Net n
InputPinsOn(n) == {pin \in InputPins : NetOf(pin[1], pin[2]) = n}

\* C27: every wire of a returned netlist joins two pins attached to one Net: its
\* `from` port was registered for an output pin on a Net on which an input pin
\* lies too, and a pin that touches no Net is the end of no wire: there are no
\* more wires than input pins on Nets.
C27_WiresFollowNets ==
    Exported =>
        /\ \A w \in 1..Len(tc2json_wires[1]) :
              \E n \in DOMAIN cluster_sources[1] :
                  /\ cluster_sources[1][n].port = tc2json_wires[1][w].from
                  /\ n # NoCluster
                  /\ InputPinsOn(n) # {}
        /\ Len(tc2json_wires[1])
              <= Cardinality({pin \in InputPins : NetOf(pin[1], pin[2]) # NoCluster})

\* C28: the multiple-sources failure occurs only if some Net has two or more
\* source pins attached; a circuit whose Nets have one source pin at most never
\* triggers it, however many output pins are left unconnected.
C28_BusOnlyWithTwoSources ==
    (Finished("compile") /\ _registry = TC2JSON /\ raised = Bus) => TwoSourcesOnNet

\* C29: when a compile pass has aborted with any failure, the compiler is idle
\* again: its circuit field is None, and a later pass on the same instance is not
\* rejected by the assertion of _compile_all.
C29_IdleAfterAbort ==
    /\ (Finished("compile") /\ raised # "none") => circuit = "None"
    /\ (Finished("compile") /\ ops >= 2) => raised # "AssertionError"

====
